---- MODULE Spec2Model ----
(***************************************************************************)
(* A model of the prediction pipeline of prediction_up_down_bot:           *)
(*   - the Decision Engine (PolymarketUpDownAgent.decideUpDown, callLLM,   *)
(*     parseUpDownResponse) with the JavaScript coercions it relies on;    *)
(*   - the generic retry/backoff utility (retry, delay);                   *)
(*   - the indicator gateway (TaapiClientService);                         *)
(*   - the indicator catalog and the Market Data Aggregator                *)
(*     (getCurrentMarketData, fetchAssetMarketData, fetchIndicatorsByDefs); *)
(*   - predict and the GET /api/predict handler with the predictions table; *)
(*   - the market registry lookup (fetchBtcUpDownMarkets, parseOutcomes);  *)
(*   - fetchAssetMarketData request by request, and the GET                *)
(*     /api/predictions handler;                                           *)
(*   - the clock reads of predict, the bundle gathered by                  *)
(*     getIndicatorsByIds, and the roundings of the aggregator and of the  *)
(*     gateway;                                                            *)
(*   - the frontend: getMarketWindow of AutoStatus, the App with its       *)
(*     timers and its prediction mutation, handlePlaceBet of the           *)
(*     PredictionCard;                                                     *)
(*   - POST /api/place-bet and placePolymarketBet.                         *)
(* Numbers are held in tenths (0.5 is 5, 1 is 10, 10 is 100), so that the  *)
(* probabilities and dollar amounts of the source stay integers.           *)
(***************************************************************************)
EXTENDS Integers, Sequences, FiniteSets, TLC

VARIABLES
    dPc,          \* decideUpDown: "idle", "awaitLLM", "returned", "thrown"
    dMarketSlug,  \* market.market_slug of the snapshot the decision is for
    dPosts,       \* axios.post calls issued by callLLM
    dHttp,        \* how the POST settled (the input of the continuation)
    dParses,      \* invocations of parseUpDownResponse
    dError,       \* the error decideUpDown threw
    dOut,         \* the UpDownAgentOutput decideUpDown returned
    rPc,          \* retry: "idle", "calling", "waiting", "returned", "thrown"
    rMaxAttempts, \* options.maxAttempts
    rBackoffBase, \* options.backoffBase
    rAttempt,     \* the loop variable attempt
    rLog,         \* what retry did so far: fn() calls and outcomes, delays
    rLastError,   \* the local lastError
    rResult,      \* what retry returned or threw
    gPc,          \* indicator gateway call: "idle", "retrying", "returned"
    gMethod,      \* the TaapiClientService method that was called
    gKey,         \* its key / valueKey argument
    gData,        \* response.data of the request that succeeded
    gResult,      \* what the method returned or threw
    mPc,          \* getCurrentMarketData: "idle", "gathering", "returned"
    mOptions,     \* its options argument
    mDefs,        \* intradayDefs and longTermDefs handed to the gather
    mGathered,    \* how the await on fetchAssetMarketData came out
    mLogged,      \* messages given to logger.error
    mResult,      \* the list it returned, or what it threw
    sPc,          \* slug computation of predict: "idle", "done"
    sSymbol,      \* the symbol argument of predict
    sNow,         \* now: the clock reading in seconds
    sWindowStart, \* roundedTimestamp
    sSlug,        \* slug
    fPc,          \* fetchBtcUpDownMarkets: "idle", "awaitGet", "returned",
                  \* "thrown"
    fOptions,     \* its options argument
    fRequest,     \* the GET it sent to the market registry
    fSettled,     \* how that GET settled
    fResult,      \* the markets it returned, or the error it threw
    hPc,          \* GET /api/predict, per request: "absent", "idle",
                  \* "gathering", "awaitSnapshot", "awaitLLM", "awaitCreate",
                  \* "responded"
    hSymbol,      \* symbol: the trimmed query parameter
    hResponse,    \* what the handler sent
    aIntraday,    \* fetchIndicatorsByDefs of the intraday bundle
    aLongTerm,    \* fetchIndicatorsByDefs of the long-term bundle
    aPrice,       \* the price fetch of fetchAssetMarketData
    aRequests,    \* HTTP requests the run sent to the indicator provider
    pMarketData,  \* predict: marketData
    pContext,     \* predict: context
    pPosted,      \* the content of the user message of the POST to the LLM
    pNow,         \* predict: now
    pSlug,        \* predict: slug
    pMarkets, pSnapshot,    \* predict: snapshot
    pReply,       \* predict: how the POST to the LLM settled
    pResult,      \* predict: result
    nSnapshotGets, \* GETs sent to the market registry, per request
    nLlmPosts,    \* POSTs sent to the LLM, per request
    dbRows,       \* the predictions table
    taapiOutage,  \* the indicator provider fails every request
    taapiFaultsLeft, \* gateway calls that may still meet a fault
    narrowInputs, \* the run draws its inputs from the narrow sets
    qPc,          \* GET /api/predictions: "idle", "awaitFind", "responded"
    qQuery,       \* its market_slug query parameter
    qResponse,    \* what the handler sent
    bPc,          \* fetchAssetMarketData: "idle", "gathering", "returned"
    bDefs,        \* intradayDefs and longTermDefs
    bNext,        \* per gather: the index of the definition its loop is at
    bPhase,       \* per task: "idle", "delay", "inflight", "backoff", "done"
    bAttempt,     \* per task: the attempt of the retry of its current call
    bRun,         \* per task: how the GETs of its current call came out
    bAcc,         \* { values, series } of the gathers
    bCalls,       \* per gather: what each of its calls got from the provider
    bResult,      \* per gather: what it returned
    bLog,         \* per task: delays elapsed, GETs sent and settled
    bPrice,       \* currentPrice
    bSection,     \* the section fetchAssetMarketData returned
    bFaultsLeft,  \* GETs that may still fail or carry a bad body
    cPc,          \* predict on the clock: "idle", "gathering", "lookup"
    cSymbol,      \* the symbol argument of predict
    cClock,       \* Date.now()
    cTicks,       \* steps the clock has made
    cInvoked,     \* Date.now() when predict was invoked
    cFetched,     \* Date.now() when the latest GET for market data was sent
    cLeft,        \* per gather: definitions its loop has still to fetch
    cPhase,       \* per task: "idle", "delay", "inflight", "done"
    cWake,        \* per gather: when the delay of its iteration is over
    cDone,        \* Date.now() when getCurrentMarketData returned
    cNow,         \* predict: now
    cSlug,        \* predict: slug
    kPc,          \* one bundle gather: "idle", "gathering", "returned"
    kIds,         \* the id list getCurrentMarketData was given for the bundle
    kBundle,      \* fetchIndicatorsByDefs: defs, loop index, values and series
    kCalls,       \* the gateway calls it made: index of the definition, method
    kResult,      \* { values, series } as returned
    oPc,          \* a rounding: "idle", "once", "twice"
    oBy,          \* who rounded first: "gateway" or "aggregator"
    oValue,       \* the value given to the rounding
    oDecimals,    \* the decimals asked for
    oOnce,        \* that value rounded
    oTwice,       \* roundOrNull of the rounded value
    oGwTwice,     \* the rounding of the gateway of the rounded value
    wPc,          \* the market window: "idle", "client", "both"
    wInstant,     \* the value of Date.now() the window is computed for
    wWindow,      \* what getMarketWindow returned
    wRounded,     \* roundedTimestamp of predict for the same clock value
    uApp,         \* the App component: its state, its refs, the timers and requests
    uEvent,       \* the handler or callback that ran last, and its argument
    xPc,          \* placing a bet: "idle", "sent", "answered"
    xFrom,        \* who sent the request: "card" or "http"
    xCard,        \* the PredictionCard whose button was clicked last
    xRequest,     \* the body of the POST /api/place-bet request
    xKey,         \* process.env.PRIVATE_KEY when the request was handled
    xClientCalls, \* the calls of placePolymarketBet, in order
    xExchange,    \* the calls that reached the exchange client, in order
    xResponse     \* the answer of POST /api/place-bet

decideVars == <<dPc, dMarketSlug, dPosts, dHttp, dParses, dError, dOut>>
retryVars == <<rPc, rMaxAttempts, rBackoffBase, rAttempt, rLog, rLastError,
               rResult>>
gatewayVars == <<gPc, gMethod, gKey, gData, gResult>>
marketDataVars == <<mPc, mOptions, mDefs, mGathered, mLogged, mResult>>
slugVars == <<sPc, sSymbol, sNow, sWindowStart, sSlug>>
registryVars == <<fPc, fOptions, fRequest, fSettled, fResult>>
predictVars == <<hPc, hSymbol, hResponse, aIntraday, aLongTerm, aPrice,
                 aRequests, pMarketData, pContext, pPosted, pNow, pSlug,
                 pMarkets, pSnapshot, pReply, pResult, nSnapshotGets,
                 nLlmPosts, dbRows, taapiOutage, taapiFaultsLeft,
                 narrowInputs>>
historyVars == <<qPc, qQuery, qResponse>>
assetVars == <<bPc, bDefs, bNext, bPhase, bAttempt, bRun, bAcc, bCalls,
               bResult, bLog, bPrice, bSection, bFaultsLeft>>
clockVars == <<cPc, cSymbol, cClock, cTicks, cInvoked, cFetched, cLeft,
               cPhase, cWake, cDone, cNow, cSlug>>
bundleVars == <<kPc, kIds, kBundle, kCalls, kResult>>
roundVars == <<oPc, oBy, oValue, oDecimals, oOnce, oTwice, oGwTwice>>
windowVars == <<wPc, wInstant, wWindow, wRounded>>
appVars == <<uApp, uEvent>>
betVars == <<xPc, xFrom, xCard, xRequest, xKey, xClientCalls, xExchange,
             xResponse>>
vars == <<decideVars, retryVars, gatewayVars, marketDataVars, slugVars,
          registryVars, predictVars, historyVars, assetVars, clockVars,
          bundleVars, roundVars, windowVars, appVars, betVars>>

\* What an action of one component leaves alone.
notDecideVars ==
    <<retryVars, gatewayVars, marketDataVars, slugVars, registryVars,
      predictVars, historyVars, assetVars, clockVars, bundleVars, roundVars,
      windowVars, appVars, betVars>>
notRetryVars ==
    <<decideVars, gatewayVars, marketDataVars, slugVars, registryVars,
      predictVars, historyVars, assetVars, clockVars, bundleVars, roundVars,
      windowVars, appVars, betVars>>
notGatewayVars ==
    <<decideVars, marketDataVars, slugVars, registryVars, predictVars,
      historyVars, assetVars, clockVars, bundleVars, roundVars, windowVars,
      appVars, betVars>>
notMarketDataVars ==
    <<decideVars, retryVars, gatewayVars, slugVars, registryVars,
      predictVars, historyVars, assetVars, clockVars, bundleVars, roundVars,
      windowVars, appVars, betVars>>
notSlugVars ==
    <<decideVars, retryVars, gatewayVars, marketDataVars, registryVars,
      predictVars, historyVars, assetVars, clockVars, bundleVars, roundVars,
      windowVars, appVars, betVars>>
notRegistryVars ==
    <<decideVars, retryVars, gatewayVars, marketDataVars, slugVars,
      predictVars, historyVars, assetVars, clockVars, bundleVars, roundVars,
      windowVars, appVars, betVars>>
notPredictVars ==
    <<decideVars, retryVars, gatewayVars, marketDataVars, slugVars,
      registryVars, historyVars, assetVars, clockVars, bundleVars, roundVars,
      windowVars, appVars, betVars>>
notHistoryVars ==
    <<decideVars, retryVars, gatewayVars, marketDataVars, slugVars,
      registryVars, predictVars, assetVars, clockVars, bundleVars, roundVars,
      windowVars, appVars, betVars>>
notAssetVars ==
    <<decideVars, retryVars, gatewayVars, marketDataVars, slugVars,
      registryVars, predictVars, historyVars, clockVars, bundleVars,
      roundVars, windowVars, appVars, betVars>>
notClockVars ==
    <<decideVars, retryVars, gatewayVars, marketDataVars, slugVars,
      registryVars, predictVars, historyVars, assetVars, bundleVars,
      roundVars, windowVars, appVars, betVars>>
notBundleVars ==
    <<decideVars, retryVars, gatewayVars, marketDataVars, slugVars,
      registryVars, predictVars, historyVars, assetVars, clockVars,
      roundVars, windowVars, appVars, betVars>>
notRoundVars ==
    <<decideVars, retryVars, gatewayVars, marketDataVars, slugVars,
      registryVars, predictVars, historyVars, assetVars, clockVars,
      bundleVars, windowVars, appVars, betVars>>
notWindowVars ==
    <<decideVars, retryVars, gatewayVars, marketDataVars, slugVars,
      registryVars, predictVars, historyVars, assetVars, clockVars,
      bundleVars, roundVars, appVars, betVars>>
notAppVars ==
    <<decideVars, retryVars, gatewayVars, marketDataVars, slugVars,
      registryVars, predictVars, historyVars, assetVars, clockVars,
      bundleVars, roundVars, windowVars, betVars>>
notBetVars ==
    <<decideVars, retryVars, gatewayVars, marketDataVars, slugVars,
      registryVars, predictVars, historyVars, assetVars, clockVars,
      bundleVars, roundVars, windowVars, appVars>>

----------------------------------------------------------------------------
(* JavaScript values as they come out of JSON.parse.  A value is a tagged  *)
(* record; an array or object met as a field value is the empty one.       *)

JsVal(t, n, s, b) == [t |-> t, n |-> n, s |-> s, b |-> b]
JsUndefined == JsVal("undefined", 0, "", FALSE)
JsNull == JsVal("null", 0, "", FALSE)
JsBoolean(b) == JsVal("boolean", 0, "", b)
JsNumber(n) == JsVal("number", n, "", FALSE)
JsString(s) == JsVal("string", 0, s, FALSE)
JsArray == JsVal("array", 0, "", FALSE)
JsObject == JsVal("object", 0, "", FALSE)

\* ToBoolean, as applied by !x and x || y.
Truthy(v) ==
    CASE v.t = "undefined" -> FALSE
      [] v.t = "null" -> FALSE
      [] v.t = "boolean" -> v.b
      [] v.t = "number" -> v.n # 0
      [] v.t = "string" -> v.s # ""
      [] OTHER -> TRUE

\* typeof x === 'object' (true of null, of arrays and of objects).
TypeofObject(v) == v.t \in {"null", "array", "object"}

\* The result of Number(x): NaN or a number.
NaN == [nan |-> TRUE, v |-> 0]
Num(v) == [nan |-> FALSE, v |-> v]

\* The spelling of the strings of the model.
Chars(s) ==
    CASE s = "" -> <<>>
      [] s = "10" -> <<"1", "0">>
      [] s = "0.7" -> <<"0", ".", "7">>
      [] s = "-3" -> <<"-", "3">>
      [] s = "bad" -> <<"b", "a", "d">>
      [] s = "0" -> <<"0">>
      [] s = "Up" -> <<"U", "p">>
      [] s = "Down" -> <<"D", "o", "w", "n">>
      [] s = "Yes" -> <<"Y", "e", "s">>
      [] s = "No" -> <<"N", "o">>
      [] s = "UP" -> <<"U", "P">>
      [] s = "DOWN" -> <<"D", "O", "W", "N">>
      [] s = "NO_BET" -> <<"N", "O", "_", "B", "E", "T">>
      [] s = "SIDEWAYS" -> <<"S", "I", "D", "E", "W", "A", "Y", "S">>
      [] s = "x" -> <<"x">>
      [] s = "BTC" -> <<"B", "T", "C">>
      [] s = "btc" -> <<"b", "t", "c">>
      [] s = "Btc" -> <<"B", "t", "c">>
      [] s = "ETH" -> <<"E", "T", "H">>
      [] s = "eth" -> <<"e", "t", "h">>
      [] s = " eth " -> <<" ", "e", "t", "h", " ">>
      [] s = " " -> <<" ">>
      [] s = "0.52" -> <<"0", ".", "5", "2">>
      [] s = "0.48" -> <<"0", ".", "4", "8">>
      [] s = "bitcoin" -> <<"b", "i", "t", "c", "o", "i", "n">>
      [] s = "BTC up" -> <<"B", "T", "C", " ", "u", "p">>
      [] s = "Bitcoin up" ->
            <<"B", "i", "t", "c", "o", "i", "n", " ", "u", "p">>
      [] s = "ETH up" -> <<"E", "T", "H", " ", "u", "p">>
      [] s = "ETH vs BTC" ->
            <<"E", "T", "H", " ", "v", "s", " ", "B", "T", "C">>
      [] s = "eth-updown-15m-1770690600" ->
            <<"e", "t", "h", "-", "u", "p", "d", "o", "w", "n", "-", "1", "5",
              "m", "-", "1", "7", "7", "0", "6", "9", "0", "6", "0", "0">>
      [] s = " eth-updown-15m-1770690600" ->
            <<" ", "e", "t", "h", "-", "u", "p", "d", "o", "w", "n", "-", "1",
              "5", "m", "-", "1", "7", "7", "0", "6", "9", "0", "6", "0", "0">>
      [] s = "btc-updown-15m-900" ->
            <<"b", "t", "c", "-", "u", "p", "d", "o", "w", "n", "-", "1", "5",
              "m", "-", "9", "0", "0">>
      [] s = "eth-updown-15m-900" ->
            <<"e", "t", "h", "-", "u", "p", "d", "o", "w", "n", "-", "1", "5",
              "m", "-", "9", "0", "0">>

Digits == <<"0", "1", "2", "3", "4", "5", "6", "7", "8", "9">>
IsDigit(c) == \E i \in 1..Len(Digits) : Digits[i] = c
DigitVal(c) == (CHOOSE i \in 1..Len(Digits) : Digits[i] = c) - 1
AllDigits(cs) == \A i \in 1..Len(cs) : IsDigit(cs[i])

RECURSIVE Pow(_, _)
Pow(b, e) == IF e <= 0 THEN 1 ELSE b * Pow(b, e - 1)

RECURSIVE DigitsValue(_)
DigitsValue(cs) ==
    IF cs = <<>> THEN 0
    ELSE DigitVal(Head(cs)) * Pow(10, Len(cs) - 1) + DigitsValue(Tail(cs))

\* Number(string): the empty string is 0, a decimal literal (sign, digits,
\* at most one fraction digit: the model's numbers are tenths) is its value,
\* anything else is NaN.
StringToNumber(s) ==
    LET cs == Chars(s)
        signed == cs # <<>> /\ cs[1] \in {"-", "+"}
        sign == IF cs # <<>> /\ cs[1] = "-" THEN -1 ELSE 1
        body == IF signed THEN Tail(cs) ELSE cs
        dots == {i \in 1..Len(body) : body[i] = "."}
    IN  IF cs = <<>> THEN Num(0)
        ELSE IF body = <<>> THEN NaN
        ELSE IF dots = {} THEN
            IF AllDigits(body) THEN Num(sign * DigitsValue(body) * 10) ELSE NaN
        ELSE IF Cardinality(dots) # 1 THEN NaN
        ELSE LET d == CHOOSE i \in dots : TRUE
                 ip == SubSeq(body, 1, d - 1)
                 fp == SubSeq(body, d + 1, Len(body))
             IN  IF AllDigits(ip) /\ AllDigits(fp) /\ Len(ip) + Len(fp) > 0
                    /\ Len(fp) <= 1
                 THEN Num(sign * (DigitsValue(ip) * 10 + DigitsValue(fp)))
                 ELSE NaN

\* Number(x).
ToNumber(v) ==
    CASE v.t = "undefined" -> NaN
      [] v.t = "null" -> Num(0)
      [] v.t = "boolean" -> Num(IF v.b THEN 10 ELSE 0)
      [] v.t = "number" -> Num(v.n)
      [] v.t = "string" -> StringToNumber(v.s)
      [] v.t = "array" -> Num(0)
      [] OTHER -> NaN

RECURSIVE NatToString(_)
NatToString(n) ==
    IF n < 10 THEN Digits[n + 1]
    ELSE NatToString(n \div 10) \o Digits[(n % 10) + 1]

\* Number.prototype.toString of a number held in tenths.
NumberToString(n) ==
    LET a == IF n < 0 THEN -n ELSE n
        whole == NatToString(a \div 10)
        frac == IF a % 10 = 0 THEN "" ELSE "." \o Digits[(a % 10) + 1]
    IN  (IF n < 0 THEN "-" ELSE "") \o whole \o frac

\* String(x).
JsToString(v) ==
    CASE v.t = "undefined" -> "undefined"
      [] v.t = "null" -> "null"
      [] v.t = "boolean" -> (IF v.b THEN "true" ELSE "false")
      [] v.t = "number" -> NumberToString(v.n)
      [] v.t = "string" -> v.s
      [] v.t = "array" -> ""
      [] OTHER -> "[object Object]"

----------------------------------------------------------------------------
(* Errors, and the shapes of an LLM reply.                                 *)

Err(name, message) == [name |-> name, message |-> message]
NoError == Err("", "")
NetworkError == Err("AxiosError", "Network Error")
StatusError == Err("AxiosError", "Request failed with status code 500")
LLMApiError == Err("Error", "LLM API error")
InvalidResponseError ==
    Err("Error", "Invalid LLM response: choice or message is missing or malformed.")
MissingDecisionError ==
    Err("Error", "Missing or invalid 'decision' field in LLM output")
JsonSyntaxError == Err("SyntaxError", "Unexpected token in JSON")
PropertyTypeError == Err("TypeError", "Cannot read properties of null")

DecisionFields ==
    {"market_slug", "direction", "size_usd", "max_loss_usd", "edge_prob"}
NoFields == [k \in DecisionFields |-> JsUndefined]

\* The value of parsed.decision: v is the value itself (its type and
\* truthiness), f its named properties (all undefined unless a plain object).
Node(v, f) == [v |-> v, f |-> f]
DecisionObject(slug, direction, size, loss, edge) ==
    Node(JsObject,
         [k \in DecisionFields |->
            CASE k = "market_slug" -> slug
              [] k = "direction" -> direction
              [] k = "size_usd" -> size
              [] k = "max_loss_usd" -> loss
              [] OTHER -> edge])

\* What JSON.parse returned: v is the value itself, reasoning and decision
\* its properties when it is a plain object.
Parsed(v, reasoning, decision) ==
    [v |-> v, reasoning |-> reasoning, decision |-> decision]
EmptyObject == Parsed(JsObject, JsUndefined, Node(JsUndefined, NoFields))

\* A JSON text: malformed, or the text of a value.
JsonText(val) == [wellFormed |-> TRUE, val |-> val]
Malformed == [wellFormed |-> FALSE, val |-> EmptyObject]

\* message.content: v is the value itself, text what a string content spells.
Content(v, text) == [v |-> v, text |-> text]
StringContent(text) == Content(JsString("x"), text)
EmptyContent == Content(JsString(""), Malformed)

\* A ChatMessage: content, and the transport's optional parsed field.
Message(content, hasParsed, parsed) ==
    [content |-> content, hasParsed |-> hasParsed, parsed |-> parsed]

\* choices[0]: v is the value itself, message its message property.
Choice(v, hasMessage, message) ==
    [v |-> v, hasMessage |-> hasMessage, message |-> message]
NoMessage == Message(Content(JsUndefined, Malformed), FALSE, EmptyObject)
NoChoice == Choice(JsUndefined, FALSE, NoMessage)

\* response.data: v is the value itself, choices its choices property.
Body(v, hasChoices, choices) ==
    [v |-> v, hasChoices |-> hasChoices, choices |-> choices]
NoBody == Body(JsUndefined, FALSE, <<>>)

\* How axios.post settled.
Http(kind, status, error, data) ==
    [kind |-> kind, status |-> status, error |-> error, data |-> data]
NoHttp == Http("", 0, NoError, NoBody)

\* What a function did: returned out, or threw error; parses counts the
\* invocations of parseUpDownResponse made on the way.
Return(out) == [ok |-> TRUE, error |-> NoError, out |-> out, parses |-> 0]
Throw(error, none) == [ok |-> FALSE, error |-> error, out |-> none, parses |-> 0]

----------------------------------------------------------------------------
(* The Decision Engine.                                                    *)

HttpOk == 200
DefaultSizeUsd == 0
DefaultMaxLossUsd == 0
DefaultEdgeProb == 5

\* UpDownDecision and UpDownAgentOutput.  direction and reasoning are cast,
\* never converted, so they hold whatever value the reply gave.
Decision(slug, direction, size, loss, edge) ==
    [market_slug |-> slug, direction |-> direction, size_usd |-> size,
     max_loss_usd |-> loss, edge_prob |-> edge]
Output(reasoning, decision) == [reasoning |-> reasoning, decision |-> decision]
NoOutput == Output(JsUndefined, Decision("", JsUndefined, 0, 0, 0))

\* x || d for a value x.
OrValue(x, d) == IF Truthy(x) THEN x ELSE d

\* Number(x) || d: d replaces NaN and 0.
NumberOr(x, d) ==
    LET n == ToNumber(x) IN IF n.nan \/ n.v = 0 THEN d ELSE n.v

\* obj.k where obj is the value of parsed.decision.
Prop(node, k) == IF node.v.t = "object" THEN node.f[k] ELSE JsUndefined

\* JSON.parse(content).
JsonParse(text) ==
    IF text.wellFormed THEN Return(text.val) ELSE Throw(JsonSyntaxError, EmptyObject)

\* const decision: UpDownDecision = {...}
CoerceDecision(decisionRaw, defaultSlug) ==
    Decision(JsToString(OrValue(Prop(decisionRaw, "market_slug"),
                                JsString(defaultSlug))),
             OrValue(Prop(decisionRaw, "direction"), JsString("NO_BET")),
             NumberOr(Prop(decisionRaw, "size_usd"), DefaultSizeUsd),
             NumberOr(Prop(decisionRaw, "max_loss_usd"), DefaultMaxLossUsd),
             NumberOr(Prop(decisionRaw, "edge_prob"), DefaultEdgeProb))

\* if (!decisionRaw || typeof decisionRaw !== 'object') throw
DecisionRejected(decisionRaw) ==
    ~Truthy(decisionRaw.v) \/ ~TypeofObject(decisionRaw.v)

parseUpDownResponse(message, defaultSlug) ==
    LET useParsed == /\ message.hasParsed
                     /\ Truthy(message.parsed.v)
                     /\ TypeofObject(message.parsed.v)
        text == IF Truthy(message.content.v) THEN message.content.text
                ELSE JsonText(EmptyObject)
        json == IF useParsed THEN Return(message.parsed) ELSE JsonParse(text)
        parsed == json.out
        isObject == parsed.v.t = "object"
        reasoning == OrValue(IF isObject THEN parsed.reasoning ELSE JsUndefined,
                             JsString(""))
        decisionRaw == IF isObject THEN parsed.decision
                       ELSE Node(JsUndefined, NoFields)
    IN  IF ~json.ok THEN Throw(json.error, NoOutput)
        ELSE IF parsed.v.t \in {"null", "undefined"}
             THEN Throw(PropertyTypeError, NoOutput)
        ELSE IF DecisionRejected(decisionRaw)
             THEN Throw(MissingDecisionError, NoOutput)
        ELSE Return(Output(reasoning, CoerceDecision(decisionRaw, defaultSlug)))

\* callLLM without its check of response.status.
callLLM_AnyStatus(h) ==
    IF h.kind # "response" THEN Throw(h.error, NoBody) ELSE Return(h.data)

\* The part of callLLM after the await: axios.post rejected (no response, or
\* a status outside 2xx), or resolved with a status that must be 200.
callLLM(h) ==
    IF h.kind # "response" THEN Throw(h.error, NoBody)
    ELSE IF h.status # HttpOk THEN Throw(LLMApiError, NoBody)
    ELSE Return(h.data)

\* The check of the first choice without the typeof test on content.
FirstMessage_AnyContent(respJson) ==
    LET choice == IF respJson.v.t = "object" /\ respJson.hasChoices
                     /\ Len(respJson.choices) > 0
                  THEN respJson.choices[1] ELSE NoChoice
    IN  IF respJson.v.t \in {"null", "undefined"}
        THEN Throw(PropertyTypeError, NoMessage)
        ELSE IF ~Truthy(choice.v) \/ ~choice.hasMessage
             THEN Throw(InvalidResponseError, NoMessage)
        ELSE Return(choice.message)

\* const choice = respJson.choices && respJson.choices[0]; and the check of
\* choice, choice.message and typeof choice.message.content.
FirstMessage(respJson) ==
    LET choice == IF respJson.v.t = "object" /\ respJson.hasChoices
                     /\ Len(respJson.choices) > 0
                  THEN respJson.choices[1] ELSE NoChoice
    IN  IF respJson.v.t \in {"null", "undefined"}
        THEN Throw(PropertyTypeError, NoMessage)
        ELSE IF \/ ~Truthy(choice.v)
                \/ ~choice.hasMessage
                \/ choice.message.content.v.t # "string"
             THEN Throw(InvalidResponseError, NoMessage)
        ELSE Return(choice.message)

\* decideUpDown from the point where the POST settles.
decideUpDown(h, market_slug) ==
    LET resp == callLLM(h)
        message == FirstMessage(resp.out)
    IN  IF ~resp.ok THEN Throw(resp.error, NoOutput)
        ELSE IF ~message.ok THEN Throw(message.error, NoOutput)
        ELSE [parseUpDownResponse(message.out, market_slug) EXCEPT !.parses = 1]

----------------------------------------------------------------------------
(* The replies the model feeds to the Decision Engine.                     *)

Slugs == {"btc-updown-15m-900", "eth-updown-15m-900"}

SlugInputs ==
    {JsUndefined, JsNumber(7)} \cup {JsString(s) : s \in Slugs}
DirectionInputs ==
    {JsUndefined, JsNumber(10), JsString("UP"), JsString("DOWN"),
     JsString("NO_BET"), JsString("SIDEWAYS")}
SizeInputs ==
    {JsUndefined, JsNull, JsBoolean(TRUE), JsObject, JsNumber(-10),
     JsNumber(0), JsNumber(100), JsString("10"), JsString("bad")}
LossInputs ==
    {JsNull, JsNumber(-10), JsNumber(100), JsString("-3"), JsString("bad")}
EdgeInputs ==
    {JsUndefined, JsNumber(-10), JsNumber(0), JsNumber(7), JsNumber(15),
     JsString("0.7"), JsString("bad")}
ReasoningInputs == {JsUndefined, JsString("x")}

DecisionObjects ==
    {DecisionObject(slug, direction, size, loss, edge) :
        slug \in SlugInputs, direction \in DirectionInputs, size \in SizeInputs,
        loss \in LossInputs, edge \in EdgeInputs}
NonObjectDecisions ==
    {Node(v, NoFields) :
        v \in {JsUndefined, JsNull, JsString(""), JsString("x"), JsNumber(0),
               JsNumber(10), JsBoolean(FALSE), JsBoolean(TRUE), JsArray}}
DecisionInputs == DecisionObjects \cup NonObjectDecisions

ParsedInputs ==
    {Parsed(JsObject, r, d) : r \in ReasoningInputs, d \in DecisionInputs}
    \cup {Parsed(v, JsUndefined, Node(JsUndefined, NoFields)) :
            v \in {JsNull, JsNumber(10), JsString("x"), JsArray}}

\* The values of the transport's parsed field, when it gives one.
ParsedFieldInputs ==
    {Parsed(JsNull, JsUndefined, Node(JsUndefined, NoFields)),
     Parsed(JsArray, JsUndefined, Node(JsUndefined, NoFields)),
     Parsed(JsObject, JsUndefined, Node(JsUndefined, NoFields)),
     Parsed(JsObject, JsString("x"), Node(JsArray, NoFields)),
     Parsed(JsObject, JsString("x"),
            DecisionObject(JsUndefined, JsString("UP"), JsNumber(100),
                           JsNumber(100), JsNumber(7)))}

MessageInputs ==
    {Message(StringContent(JsonText(p)), FALSE, EmptyObject) : p \in ParsedInputs}
    \cup {Message(c, FALSE, EmptyObject) :
            c \in {StringContent(Malformed), EmptyContent,
                   Content(JsUndefined, Malformed), Content(JsNull, Malformed),
                   Content(JsNumber(10), Malformed)}}
    \cup {Message(StringContent(t), TRUE, p) :
            t \in {Malformed, JsonText(EmptyObject)}, p \in ParsedFieldInputs}

ChoiceInputs ==
    {NoChoice, Choice(JsNull, FALSE, NoMessage), Choice(JsObject, FALSE, NoMessage)}
    \cup {Choice(JsObject, TRUE, m) : m \in MessageInputs}

BodyInputs ==
    {Body(JsNull, FALSE, <<>>), Body(JsString(""), FALSE, <<>>),
     Body(JsObject, FALSE, <<>>), Body(JsObject, TRUE, <<>>)}
    \cup {Body(JsObject, TRUE, <<c>>) : c \in ChoiceInputs}

\* A well-formed body, as a 2xx status other than 200 would carry it.
PlainBody ==
    Body(JsObject, TRUE,
         <<Choice(JsObject, TRUE,
                  Message(StringContent(JsonText(
                      Parsed(JsObject, JsString("x"),
                             DecisionObject(JsUndefined, JsString("UP"),
                                            JsNumber(100), JsNumber(100),
                                            JsNumber(7))))),
                          FALSE, EmptyObject))>>)

HttpOutcomes ==
    {Http("networkError", 0, NetworkError, NoBody),
     Http("statusError", 500, StatusError, NoBody),
     Http("response", 201, NoError, PlainBody)}
    \cup {Http("response", HttpOk, NoError, b) : b \in BodyInputs}

----------------------------------------------------------------------------
(* decideUpDown as a process: the call up to the await on axios.post, and  *)
(* the rest of the function once the POST has settled.                     *)

InitDecide ==
    /\ dPc = "idle"
    /\ dMarketSlug = ""
    /\ dPosts = 0
    /\ dHttp = NoHttp
    /\ dParses = 0
    /\ dError = NoError
    /\ dOut = NoOutput

DecideUpDownCall ==
    /\ dPc = "idle"
    /\ \E market_slug \in Slugs : dMarketSlug' = market_slug
    /\ dPc' = "awaitLLM"
    /\ dPosts' = dPosts + 1
    /\ UNCHANGED <<dHttp, dParses, dError, dOut>>
    /\ UNCHANGED notDecideVars

LLMSettles ==
    /\ dPc = "awaitLLM"
    /\ \E h \in HttpOutcomes :
          LET r == decideUpDown(h, dMarketSlug)
          IN  /\ dPc' = IF r.ok THEN "returned" ELSE "thrown"
              /\ dError' = r.error
              /\ dOut' = r.out
              /\ dParses' = dParses + r.parses
              /\ dHttp' = h
    /\ UNCHANGED <<dMarketSlug, dPosts>>
    /\ UNCHANGED notDecideVars

NextDecide == DecideUpDownCall \/ LLMSettles

----------------------------------------------------------------------------
(* The retry/backoff utility.                                              *)

MaxAttemptsBound == 4
DefaultMaxAttempts == 3
DefaultBackoffBase == 500

\* What fn() resolves with or throws, and what retry returns or throws.
\* NullError is the null that lastError holds before any catch.
Outcome(kind, x) == [kind |-> kind, x |-> x]
Nothing == Outcome("none", "")
NullError == Outcome("null", "")
Values == {Outcome("value", "v1"), Outcome("value", "v2")}
Errors == {Outcome("error", "e1"), Outcome("error", "e2")}

\* options: a field left out takes its default in the destructuring.
RetryOptions(hasMax, max, hasBase, base) ==
    [hasMaxAttempts |-> hasMax, maxAttempts |-> max,
     hasBackoffBase |-> hasBase, backoffBase |-> base]
OptionInputs ==
    {RetryOptions(FALSE, 0, FALSE, 0), RetryOptions(FALSE, 0, TRUE, 200)}
    \cup {RetryOptions(TRUE, m, hb, 200) :
            m \in (-1)..MaxAttemptsBound, hb \in BOOLEAN}

\* An entry of the log: fn() called for attempt k, fn() of attempt k threw x
\* or resolved with x, delay(ms) started after attempt k, and its timer fired.
Event(ev, k, x, ms) == [ev |-> ev, k |-> k, x |-> x, ms |-> ms]
CallEvent(k) == Event("call", k, Nothing, 0)
FailEvent(k, e) == Event("fail", k, e, 0)
OkEvent(k, v) == Event("ok", k, v, 0)
DelayEvent(k, ms) == Event("delay", k, Nothing, ms)
WakeEvent(k) == Event("wake", k, Nothing, 0)

\* A loop that runs one attempt too many.
LoopContinues_OneMore(attempt, maxAttempts) == attempt <= maxAttempts + 1

\* attempt <= maxAttempts
LoopContinues(attempt, maxAttempts) == attempt <= maxAttempts

\* if (attempt < maxAttempts)
ShouldWait(attempt, maxAttempts) == attempt < maxAttempts

\* A backoff whose exponent is attempt, not attempt - 1.
DelayMs_FromAttempt(backoffBase, attempt) == backoffBase * Pow(2, attempt)

\* const delayMs = backoffBase * Math.pow(2, attempt - 1)
DelayMs(backoffBase, attempt) == backoffBase * Pow(2, attempt - 1)

\* A catch that keeps the first error it saw.
CaughtError_KeepFirst(lastError, error) ==
    IF lastError.kind = "null" THEN error ELSE lastError

\* lastError = error
CaughtError(lastError, error) == error

InitRetry ==
    /\ rPc = "idle"
    /\ rMaxAttempts = 0
    /\ rBackoffBase = 0
    /\ rAttempt = 0
    /\ rLog = <<>>
    /\ rLastError = NullError
    /\ rResult = Nothing

\* The top of the for loop with the loop variable at `attempt`: call fn(),
\* or leave the loop and throw lastError.
LoopTop(attempt, maxAttempts, lastError, log) ==
    /\ rAttempt' = attempt
    /\ IF LoopContinues(attempt, maxAttempts)
       THEN /\ rPc' = "calling"
            /\ rLog' = Append(log, CallEvent(attempt))
            /\ rResult' = rResult
       ELSE /\ rPc' = "thrown"
            /\ rLog' = log
            /\ rResult' = lastError

\* retry(fn, options) up to its first await.
RetryEnter(o) ==
    LET maxAttempts == IF o.hasMaxAttempts THEN o.maxAttempts
                       ELSE DefaultMaxAttempts
        backoffBase == IF o.hasBackoffBase THEN o.backoffBase
                       ELSE DefaultBackoffBase
    IN  /\ rMaxAttempts' = maxAttempts
        /\ rBackoffBase' = backoffBase
        /\ LoopTop(1, maxAttempts, NullError, rLog)
        /\ rLastError' = NullError

\* A caller invokes retry(fn, options).
RetryCall ==
    /\ rPc = "idle"
    /\ \E o \in OptionInputs : RetryEnter(o)
    /\ UNCHANGED notRetryVars

\* return await fn(): fn() resolved.
FnResolves ==
    /\ rPc = "calling"
    /\ \E v \in Values :
          /\ rResult' = v
          /\ rLog' = Append(rLog, OkEvent(rAttempt, v))
    /\ rPc' = "returned"
    /\ UNCHANGED <<rMaxAttempts, rBackoffBase, rAttempt, rLastError>>
    /\ UNCHANGED notRetryVars

\* catch (error): fn() threw; wait, or fall out of the loop and throw.
FnRejects ==
    /\ rPc = "calling"
    /\ \E e \in Errors :
          LET lastError == CaughtError(rLastError, e)
              failed == Append(rLog, FailEvent(rAttempt, e))
          IN  /\ rLastError' = lastError
              /\ IF ShouldWait(rAttempt, rMaxAttempts)
                 THEN /\ rPc' = "waiting"
                      /\ rLog' = Append(failed,
                                        DelayEvent(rAttempt,
                                                   DelayMs(rBackoffBase, rAttempt)))
                      /\ UNCHANGED <<rAttempt, rResult>>
                 ELSE LoopTop(rAttempt + 1, rMaxAttempts, lastError, failed)
    /\ UNCHANGED <<rMaxAttempts, rBackoffBase>>
    /\ UNCHANGED notRetryVars

\* await delay(delayMs): the timer fired; attempt++ and the loop test.
DelayElapses ==
    /\ rPc = "waiting"
    /\ LoopTop(rAttempt + 1, rMaxAttempts, rLastError,
               Append(rLog, WakeEvent(rAttempt)))
    /\ UNCHANGED <<rMaxAttempts, rBackoffBase, rLastError>>
    /\ UNCHANGED notRetryVars

NextRetry == RetryCall \/ FnResolves \/ FnRejects \/ DelayElapses

----------------------------------------------------------------------------
(* The indicator gateway (TaapiClientService).  Indicator numbers are held *)
(* in units of 0.00001, so that the rounding to four decimals shows.       *)

\* A field of a response body: a scalar, or an array of scalars.
GwField(isArray, v, elems) == [isArray |-> isArray, v |-> v, elems |-> elems]
Scalar(v) == GwField(FALSE, v, <<>>)
ArrayOf(elems) == GwField(TRUE, JsArray, elems)
Missing == Scalar(JsUndefined)

\* response.data as axios hands it over: the parsed JSON value, or the raw
\* text when the body was not JSON.  v is the value (JsObject for an
\* object), fields the own properties of an object.
GwBody(v, fields) == [v |-> v, fields |-> fields]
NoFieldsMap == [k \in {} |-> Missing]
OneField(k, f) == [x \in {k} |-> f]
ObjectBody(fields) == GwBody(JsObject, fields)
EmptyObjectBody == ObjectBody(NoFieldsMap)
NullBody == GwBody(JsNull, NoFieldsMap)
TextBody(text) == GwBody(JsString(text), NoFieldsMap)
NoGwBody == GwBody(JsUndefined, NoFieldsMap)

\* data[key]
Field(data, key) ==
    IF key \in DOMAIN data.fields THEN data.fields[key] ELSE Missing

\* Math.round(val * 10000) / 10000 (Math.round takes halves upwards)
Round4(val) == ((val + 5) \div 10) * 10

\* What a method of the gateway returns or throws.
GwReturn(value, body) ==
    [raised |-> FALSE, error |-> Nothing, value |-> value, body |-> body]
GwThrow(error) ==
    [raised |-> TRUE, error |-> error, value |-> Missing, body |-> NoGwBody]
TypeError == Outcome("error", "TypeError")

\* How `await retry(() => axios.get(...))` came out.
Retried(ok, error) == [ok |-> ok, error |-> error]

\* The try block of fetchValue.
fetchValueTry(retried, data, key) ==
    IF ~retried.ok THEN GwThrow(retried.error)
    ELSE IF data.v.t \in {"null", "undefined"} THEN GwThrow(TypeError)
    ELSE LET val == Field(data, key)
         IN  IF ~val.isArray /\ val.v.t = "number"
             THEN GwReturn(Scalar(JsNumber(Round4(val.v.n))), NoGwBody)
             ELSE GwReturn(Scalar(JsNull), NoGwBody)

\* A fetchValue whose catch clause answers 0.
fetchValue_ZeroOnFailure(retried, data, key) ==
    LET r == fetchValueTry(retried, data, key)
    IN  IF r.raised THEN GwReturn(Scalar(JsNumber(0)), NoGwBody) ELSE r

\* fetchValue: catch { return null }
fetchValue(retried, data, key) ==
    LET r == fetchValueTry(retried, data, key)
    IN  IF r.raised THEN GwReturn(Scalar(JsNull), NoGwBody) ELSE r

\* getHistoricalIndicator: return response.data, or the error of retry.
getHistoricalIndicator(retried, data) ==
    IF retried.ok THEN GwReturn(Missing, data) ELSE GwThrow(retried.error)

\* typeof v === 'number' ? Math.round(v * 10000) / 10000 : v
RoundEntry(v) == IF v.t = "number" THEN JsNumber(Round4(v.n)) ELSE v

\* The try block of fetchSeries; `valueKey in data` throws a TypeError when
\* data is a primitive.
fetchSeriesTry(retried, body, valueKey) ==
    LET got == getHistoricalIndicator(retried, body)
        data == got.body
    IN  IF got.raised THEN got
        ELSE IF ~Truthy(data.v) THEN GwReturn(ArrayOf(<<>>), NoGwBody)
        ELSE IF data.v.t # "object" THEN GwThrow(TypeError)
        ELSE IF valueKey \in DOMAIN data.fields
                /\ Field(data, valueKey).isArray
        THEN LET arr == Field(data, valueKey).elems
             IN  GwReturn(ArrayOf([i \in 1..Len(arr) |-> RoundEntry(arr[i])]),
                          NoGwBody)
        ELSE GwReturn(ArrayOf(<<>>), NoGwBody)

\* fetchSeries: catch (error) { return [] }
fetchSeries(retried, body, valueKey) ==
    LET r == fetchSeriesTry(retried, body, valueKey)
    IN  IF r.raised THEN GwReturn(ArrayOf(<<>>), NoGwBody) ELSE r

\* getHistoricalData: return response.data ?? {}, catch { return {} }
getHistoricalData(retried, data) ==
    IF ~retried.ok THEN GwReturn(Missing, EmptyObjectBody)
    ELSE IF data.v.t \in {"null", "undefined"}
    THEN GwReturn(Missing, EmptyObjectBody)
    ELSE GwReturn(Missing, data)

Methods == {"fetchValue", "fetchSeries", "getHistoricalData"}
Keys == {"value", "valueMACD"}

GatewayMethod(method, retried, data, key) ==
    CASE method = "fetchValue" -> fetchValue(retried, data, key)
      [] method = "fetchSeries" -> fetchSeries(retried, data, key)
      [] method = "getHistoricalData" -> getHistoricalData(retried, data)

\* A gateway that allows each call five requests.
GatewayOptions_FiveAttempts == RetryOptions(TRUE, 5, FALSE, 0)

\* retry(() => axios.get(...)): no options are passed.
GatewayOptions == RetryOptions(FALSE, 0, FALSE, 0)

\* Bodies the indicator provider may answer with.
FieldInputs ==
    {Scalar(JsNumber(6512345)), Scalar(JsNumber(-123455)),
     Scalar(JsString("x")), Scalar(JsNull),
     ArrayOf(<<>>), ArrayOf(<<JsNumber(6512345), JsNumber(4999996)>>),
     ArrayOf(<<JsNumber(6512345), JsString("x"), JsNull>>)}
GwBodyInputs ==
    {ObjectBody(OneField("value", f)) : f \in FieldInputs}
    \cup {ObjectBody(OneField("valueMACD", Scalar(JsNumber(-123455)))),
          ObjectBody(OneField("error", Scalar(JsString("x")))),
          EmptyObjectBody, NullBody, TextBody("bad"), TextBody("")}

InitGateway ==
    /\ gPc = "idle"
    /\ gMethod = ""
    /\ gKey = ""
    /\ gData = NoGwBody
    /\ gResult = GwReturn(Missing, NoGwBody)

\* A method of the gateway is called and enters retry.
GatewayCall ==
    /\ gPc = "idle"
    /\ rPc = "idle"
    /\ \E method \in Methods, key \in Keys :
          /\ gMethod' = method
          /\ gKey' = IF method = "getHistoricalData" THEN "" ELSE key
    /\ gPc' = "retrying"
    /\ RetryEnter(GatewayOptions)
    /\ UNCHANGED <<gData, gResult>>
    /\ UNCHANGED notGatewayVars

\* The rest of the method once retry has returned the response or thrown.
GatewayReturns ==
    /\ gPc = "retrying"
    /\ rPc \in {"returned", "thrown"}
    /\ \E data \in IF rPc = "returned" THEN GwBodyInputs ELSE {NoGwBody} :
          /\ gData' = data
          /\ gResult' = GatewayMethod(gMethod,
                                      Retried(rPc = "returned", rResult),
                                      data, gKey)
    /\ gPc' = "returned"
    /\ UNCHANGED <<gMethod, gKey>>
    /\ UNCHANGED retryVars
    /\ UNCHANGED notGatewayVars

NextGateway ==
    GatewayCall \/ FnResolves \/ FnRejects \/ DelayElapses \/ GatewayReturns

----------------------------------------------------------------------------
(* The indicator catalog.                                                  *)

\* An IndicatorDefinition; valueKey is "" and multiValueKeys is empty when
\* the definition leaves them out.
Def(id, taapiIndicator, valueKey, series, multiValueKeys) ==
    [id |-> id, taapiIndicator |-> taapiIndicator, valueKey |-> valueKey,
     fetchSeries |-> series, multiValueKeys |-> multiValueKeys]
MultiValueKey(responseKey, outputId) ==
    [responseKey |-> responseKey, outputId |-> outputId]

AVAILABLE_INDICATORS ==
    <<Def("ema_20", "ema", "value", TRUE, <<>>),
      Def("ema_50", "ema", "value", FALSE, <<>>),
      Def("macd", "macd", "valueMACD", TRUE, <<>>),
      Def("rsi_7", "rsi", "value", TRUE, <<>>),
      Def("rsi_14", "rsi", "value", TRUE, <<>>),
      Def("bbands", "bbands", "", TRUE,
          <<MultiValueKey("valueUpperBand", "bbands_upper"),
            MultiValueKey("valueMiddleBand", "bbands_middle"),
            MultiValueKey("valueLowerBand", "bbands_lower")>>),
      Def("atr_3", "atr", "value", FALSE, <<>>),
      Def("atr_14", "atr", "value", FALSE, <<>>)>>

DEFAULT_INTRADAY_INDICATOR_IDS == <<"ema_20", "macd", "rsi_7", "rsi_14">>
DEFAULT_LONGTERM_INDICATOR_IDS ==
    <<"ema_20", "ema_50", "atr_3", "atr_14", "macd", "rsi_14">>

\* Array.prototype.find on a list of definitions: the first entry with
\* that id, as a list of at most one definition (empty for undefined).
RECURSIVE FindById(_, _)
FindById(list, id) ==
    IF list = <<>> THEN <<>>
    ELSE IF Head(list).id = id THEN <<Head(list)>>
    ELSE FindById(Tail(list), id)

\* A lookup that answers an unknown id with the first definition.
getIndicatorById_OrFirst(id) ==
    LET found == FindById(AVAILABLE_INDICATORS, id)
    IN  IF found = <<>> THEN <<AVAILABLE_INDICATORS[1]>> ELSE found

\* AVAILABLE_INDICATORS.find(ind => ind.id === id)
getIndicatorById(id) == FindById(AVAILABLE_INDICATORS, id)

\* getIndicatorsByIds: map, then drop the undefined.
RECURSIVE getIndicatorsByIds(_)
getIndicatorsByIds(ids) ==
    IF ids = <<>> THEN <<>>
    ELSE getIndicatorById(Head(ids)) \o getIndicatorsByIds(Tail(ids))

----------------------------------------------------------------------------
(* getCurrentMarketData around its one await.                              *)

\* { values, series } of a bundle: each a list of <<id, value>> entries in
\* insertion order.
Indicators(values, series) == [values |-> values, series |-> series]
NoIndicators == Indicators(<<>>, <<>>)

MarketSection(asset, current_price, intraday, long_term) ==
    [asset |-> asset, current_price |-> current_price,
     intraday |-> intraday, long_term |-> long_term]

\* GetMarketDataOptions: the id lists may be left out (hasIds FALSE).
IdList(hasIds, ids) == [hasIds |-> hasIds, ids |-> ids]
NoIdList == IdList(FALSE, <<>>)
MarketDataOptions(asset, hasLogger, intradayIndicatorIds, longTermIndicatorIds) ==
    [asset |-> asset, hasLogger |-> hasLogger,
     intradayIndicatorIds |-> intradayIndicatorIds,
     longTermIndicatorIds |-> longTermIndicatorIds]

\* ids ?? defaults: an empty list counts as a selection.
IdsOrDefault_OnlyWhenUndefined(idList, defaults) ==
    IF idList.hasIds THEN idList.ids ELSE defaults

\* ids?.length ? ids : defaults
IdsOrDefault(idList, defaults) ==
    IF idList.hasIds /\ Len(idList.ids) # 0 THEN idList.ids ELSE defaults

\* intradayDefs and longTermDefs
ResolveDefs(options) ==
    [intraday |-> getIndicatorsByIds(
                      IdsOrDefault(options.intradayIndicatorIds,
                                   DEFAULT_INTRADAY_INDICATOR_IDS)),
     longTerm |-> getIndicatorsByIds(
                      IdsOrDefault(options.longTermIndicatorIds,
                                   DEFAULT_LONGTERM_INDICATOR_IDS))]

\* How `await this.fetchAssetMarketData(...)` came out: a section, or a
\* thrown value (an Error with a message, or anything else).
Gathered(raised, section, isError, message) ==
    [raised |-> raised, section |-> section, isError |-> isError,
     message |-> message]
NoSection == MarketSection("", JsNull, NoIndicators, NoIndicators)
GatherOk(section) == Gathered(FALSE, section, FALSE, "")
GatherThrew(isError, message) == Gathered(TRUE, NoSection, isError, message)

\* What getCurrentMarketData returns (or throws) and what it logged.
MarketDataResult(raised, sections, logged) ==
    [raised |-> raised, sections |-> sections, logged |-> logged]

\* A catch clause that throws the error on.
AfterGather_Rethrow(options, gathered) ==
    IF gathered.raised
    THEN MarketDataResult(TRUE, <<>>, <<>>)
    ELSE MarketDataResult(FALSE, <<gathered.section>>, <<>>)

\* From the await on: push the section, or catch, log and go on; then
\* return marketSections.  String(error) of the thrown values modelled is
\* their text.
AfterGather(options, gathered) ==
    IF gathered.raised
    THEN LET errorMessage == gathered.message
         IN  MarketDataResult(
                 FALSE, <<>>,
                 IF options.hasLogger
                 THEN <<"Data gather error " \o options.asset \o ": "
                        \o errorMessage>>
                 ELSE <<>>)
    ELSE MarketDataResult(FALSE, <<gathered.section>>, <<>>)

Assets == {"BTC", "ETH"}
IdListInputs ==
    {NoIdList, IdList(TRUE, <<>>), IdList(TRUE, <<"rsi_7">>),
     IdList(TRUE, <<"bbands", "nope", "atr_3">>), IdList(TRUE, <<"nope">>)}
OptionsInputs ==
    {MarketDataOptions(asset, hasLogger, intraday, longTerm) :
        asset \in Assets, hasLogger \in BOOLEAN,
        intraday \in IdListInputs, longTerm \in IdListInputs}
PriceInputs == {JsNull, JsNumber(6512345)}
GatherInputs(asset) ==
    {GatherOk(MarketSection(asset, price, NoIndicators, NoIndicators)) :
        price \in PriceInputs}
    \cup {GatherThrew(TRUE, "boom"), GatherThrew(FALSE, "x")}

NoMarketDataOptions == MarketDataOptions("", FALSE, NoIdList, NoIdList)
NoDefs == [intraday |-> <<>>, longTerm |-> <<>>]

InitMarketData ==
    /\ mPc = "idle"
    /\ mOptions = NoMarketDataOptions
    /\ mDefs = NoDefs
    /\ mGathered = GatherOk(NoSection)
    /\ mLogged = <<>>
    /\ mResult = MarketDataResult(FALSE, <<>>, <<>>)

\* getCurrentMarketData(options) up to the await on fetchAssetMarketData.
GetCurrentMarketDataCall ==
    /\ mPc = "idle"
    /\ \E options \in OptionsInputs :
          /\ mOptions' = options
          /\ mDefs' = ResolveDefs(options)
    /\ mPc' = "gathering"
    /\ UNCHANGED <<mGathered, mLogged, mResult>>
    /\ UNCHANGED notMarketDataVars

\* fetchAssetMarketData resolved or threw; the rest of getCurrentMarketData.
GatherSettles ==
    /\ mPc = "gathering"
    /\ \E gathered \in GatherInputs(mOptions.asset) :
          LET r == AfterGather(mOptions, gathered)
          IN  /\ mGathered' = gathered
              /\ mResult' = r
              /\ mLogged' = mLogged \o r.logged
    /\ mPc' = "returned"
    /\ UNCHANGED <<mOptions, mDefs>>
    /\ UNCHANGED notMarketDataVars

NextMarketData == GetCurrentMarketDataCall \/ GatherSettles

----------------------------------------------------------------------------
(* The market slug of predict: the asset and the 15-minute window.         *)

LowerLetters ==
    <<"a", "b", "c", "d", "e", "f", "g", "h", "i", "j", "k", "l", "m", "n",
      "o", "p", "q", "r", "s", "t", "u", "v", "w", "x", "y", "z">>
UpperLetters ==
    <<"A", "B", "C", "D", "E", "F", "G", "H", "I", "J", "K", "L", "M", "N",
      "O", "P", "Q", "R", "S", "T", "U", "V", "W", "X", "Y", "Z">>

\* One character of toUpperCase / toLowerCase.
Translate(c, from, to) ==
    IF \E i \in 1..Len(from) : from[i] = c
    THEN to[CHOOSE i \in 1..Len(from) : from[i] = c]
    ELSE c

RECURSIVE Join(_)
Join(cs) == IF cs = <<>> THEN "" ELSE Head(cs) \o Join(Tail(cs))

\* String.prototype.toUpperCase and toLowerCase
ToUpperCase(s) ==
    Join([i \in 1..Len(Chars(s)) |->
             Translate(Chars(s)[i], LowerLetters, UpperLetters)])
ToLowerCase(s) ==
    LET cs == Chars(s)
    IN  Join([i \in 1..Len(cs) |-> Translate(cs[i], UpperLetters, LowerLetters)])

FIFTEEN_MINUTES == 900

\* A window start rounded to the nearest quarter of an hour.
WindowStart_Nearest(now) ==
    ((now + 450) \div FIFTEEN_MINUTES) * FIFTEEN_MINUTES

\* Math.floor(now / FIFTEEN_MINUTES) * FIFTEEN_MINUTES
WindowStart(now) == (now \div FIFTEEN_MINUTES) * FIFTEEN_MINUTES

\* `${asset.toLowerCase()}-updown-15m-${roundedTimestamp}`
MarketSlug(asset, roundedTimestamp) ==
    ToLowerCase(asset) \o "-updown-15m-" \o NatToString(roundedTimestamp)

\* The slug predict(symbol) computes when the clock reads `now` seconds.
ComputedSlug(symbol, now) == MarketSlug(ToUpperCase(symbol), WindowStart(now))

\* Clock readings: around the edges of the first windows and of the
\* windows that start at 1770690600.
MaxBucket == 3
ExampleWindow == 1770690600
Offsets == {0, 1, 5, 299, 449, 450, 898, 899}
ClockInputs ==
    {b * 900 + d : b \in 0..MaxBucket, d \in Offsets}
    \cup {ExampleWindow + b * 900 + d : b \in 0..1, d \in Offsets}
Symbols == {"BTC", "btc", "Btc", "ETH", "eth"}

InitSlug ==
    /\ sPc = "idle"
    /\ sSymbol = ""
    /\ sNow = 0
    /\ sWindowStart = 0
    /\ sSlug = ""

\* predict, from the clock reading to the slug.
ComputeSlug ==
    /\ sPc = "idle"
    /\ \E symbol \in Symbols, now \in ClockInputs :
          /\ sSymbol' = symbol
          /\ sNow' = now
          /\ sWindowStart' = WindowStart(now)
          /\ sSlug' = MarketSlug(ToUpperCase(symbol), WindowStart(now))
    /\ sPc' = "done"
    /\ UNCHANGED notSlugVars

NextSlug == ComputeSlug

----------------------------------------------------------------------------
(* The bundle gather and the section of an asset (fetchIndicatorsByDefs,   *)
(* fetchAssetMarketData), over the gateway and retry as defined above.     *)

\* A rounding that always goes to the step above.
RoundDecimals_NextStep(value, decimals) ==
    LET step == Pow(10, 5 - decimals)
    IN  ((value + step) \div step) * step

\* Math.round(value * 10^decimals) / 10^decimals of a number held in units
\* of 0.00001.
RoundDecimals(value, decimals) ==
    LET step == Pow(10, 5 - decimals)
    IN  ((2 * value + step) \div (2 * step)) * step

\* The number a value stands for in arithmetic, in units of 0.00001
\* (ToNumber gives tenths).
UnitsOf(v) == IF v.t = "number" THEN v.n ELSE ToNumber(v).v * 10000

\* isNaN(v)
IsNaN(v) == IF v.t = "number" THEN FALSE ELSE ToNumber(v).nan

\* roundOrNull(value, decimals)
roundOrNull(value, decimals) ==
    IF value.t = "null" \/ value.t = "undefined" \/ IsNaN(value)
    THEN JsNull
    ELSE JsNumber(RoundDecimals(UnitsOf(value), decimals))

\* roundSeries(values, decimals)
RECURSIVE roundSeries(_, _)
roundSeries(values, decimals) ==
    IF values = <<>> THEN <<>>
    ELSE LET v == Head(values)
         IN  (IF v.t # "null" /\ v.t # "undefined" /\ ~IsNaN(v)
              THEN <<JsNumber(RoundDecimals(UnitsOf(v), decimals))>>
              ELSE <<>>)
             \o roundSeries(Tail(values), decimals)

\* arr[arr.length - 1] ?? null
LastOrNull(arr) ==
    IF arr = <<>> \/ arr[Len(arr)].t \in {"null", "undefined"}
    THEN JsNull ELSE arr[Len(arr)]

\* record[key] = value on a Record kept as a list of <<key, value>> in
\* insertion order.
RECURSIVE SetEntry(_, _, _)
SetEntry(record, key, value) ==
    IF record = <<>> THEN <<<<key, value>>>>
    ELSE IF Head(record)[1] = key THEN <<<<key, value>>>> \o Tail(record)
    ELSE <<Head(record)>> \o SetEntry(Tail(record), key, value)

\* record[key], JsUndefined when absent (values) ...
RECURSIVE GetEntry(_, _, _)
GetEntry(record, key, absent) ==
    IF record = <<>> THEN absent
    ELSE IF Head(record)[1] = key THEN Head(record)[2]
    ELSE GetEntry(Tail(record), key, absent)
HasEntry(record, key) == \E i \in 1..Len(record) : record[i][1] = key

\* The gateway method an iteration of fetchIndicatorsByDefs calls for def,
\* "" when it calls none.
DefMethod(def) ==
    IF Len(def.multiValueKeys) # 0 THEN "getHistoricalData"
    ELSE IF def.fetchSeries /\ def.valueKey # "" THEN "fetchSeries"
    ELSE IF def.valueKey # "" THEN "fetchValue"
    ELSE ""

\* An array taken as it comes.
MultiValueArray_KeepEntries(raw) ==
    IF raw.isArray THEN raw.elems
    ELSE IF raw.v.t = "number" THEN <<raw.v>>
    ELSE <<>>

\* Array.isArray(raw) ? raw.map(v => typeof v === 'number' ? v : 0)
\*                    : typeof raw === 'number' ? [raw] : []
MultiValueArray(raw) ==
    IF raw.isArray
    THEN [i \in 1..Len(raw.elems) |->
             IF raw.elems[i].t = "number" THEN raw.elems[i] ELSE JsNumber(0)]
    ELSE IF raw.v.t = "number" THEN <<raw.v>>
    ELSE <<>>

\* The inner loop over def.multiValueKeys.
RECURSIVE FillMultiValues(_, _, _)
FillMultiValues(acc, keys, data) ==
    IF keys = <<>> THEN acc
    ELSE LET arr == MultiValueArray(Field(data, Head(keys).responseKey))
             outputId == Head(keys).outputId
         IN  FillMultiValues(
                 Indicators(SetEntry(acc.values, outputId,
                                     roundOrNull(LastOrNull(arr), 2)),
                            SetEntry(acc.series, outputId,
                                     roundSeries(arr, 2))),
                 Tail(keys), data)

\* One iteration of the loop of fetchIndicatorsByDefs after its awaits:
\* got is what the gateway method returned.
StoreIndicator(acc, def, got) ==
    CASE DefMethod(def) = "getHistoricalData" ->
            FillMultiValues(acc, def.multiValueKeys, got.body)
      [] DefMethod(def) = "fetchSeries" ->
            Indicators(SetEntry(acc.values, def.id,
                                roundOrNull(LastOrNull(got.value.elems), 2)),
                       SetEntry(acc.series, def.id,
                                roundSeries(got.value.elems, 2)))
      [] DefMethod(def) = "fetchValue" ->
            Indicators(SetEntry(acc.values, def.id,
                                roundOrNull(got.value.v, 2)),
                       acc.series)
      [] OTHER -> acc

\* The runs retry can make for given options: the outcomes of its fn()
\* calls in order.  A run that ends in "ok" returns, any other throws.
RECURSIVE RetryRunsFrom(_, _)
RetryRunsFrom(attempt, maxAttempts) ==
    IF LoopContinues(attempt, maxAttempts)
    THEN {<<"ok">>}
         \cup {<<"fail">> \o run :
                 run \in RetryRunsFrom(attempt + 1, maxAttempts)}
    ELSE {<<>>}
RetryRuns(o) ==
    RetryRunsFrom(1, IF o.hasMaxAttempts THEN o.maxAttempts
                     ELSE DefaultMaxAttempts)
RunSucceeded(run) == run # <<>> /\ run[Len(run)] = "ok"

\* A call of a gateway method as one step: the run of its retry and the
\* body of the request that succeeded.
Upstream(run, body) == [run |-> run, body |-> body]
CallGateway(method, key, upstream) ==
    GatewayMethod(method,
                  Retried(RunSucceeded(upstream.run),
                          Outcome("error", "e1")),
                  upstream.body, key)

----------------------------------------------------------------------------
(* The market registry lookup (fetchBtcUpDownMarkets with a slug,          *)
(* parseOutcomes) and the snapshot predict builds from it.  Prices are in  *)
(* units of 0.00001.                                                       *)

\* The longest prefix of digits with at most one dot.
RECURSIVE NumericPrefix(_, _)
NumericPrefix(cs, seenDot) ==
    IF cs = <<>> THEN <<>>
    ELSE IF IsDigit(Head(cs))
         THEN <<Head(cs)>> \o NumericPrefix(Tail(cs), seenDot)
    ELSE IF Head(cs) = "." /\ ~seenDot
         THEN <<".">> \o NumericPrefix(Tail(cs), TRUE)
    ELSE <<>>

\* The number a numeric prefix spells (five fraction digits kept), NaN when
\* it has no digit.
PrefixValue(cs) ==
    LET dots == {i \in 1..Len(cs) : cs[i] = "."}
        d == IF dots = {} THEN Len(cs) + 1 ELSE CHOOSE i \in dots : TRUE
        ip == SubSeq(cs, 1, d - 1)
        fp == SubSeq(cs, d + 1, IF Len(cs) < d + 5 THEN Len(cs) ELSE d + 5)
    IN  IF Len(ip) + Len(fp) = 0 THEN NaN
        ELSE Num(DigitsValue(ip) * 100000
                 + DigitsValue(fp) * Pow(10, 5 - Len(fp)))

\* parseFloat(s) of an unsigned decimal text: the number its longest
\* numeric prefix spells.
ParseFloat(s) ==
    CHOOSE parsed \in {PrefixValue(cs) :
                          cs \in {NumericPrefix(text, FALSE) :
                                     text \in {Chars(s)}}} : TRUE

\* A string field holding JSON text (outcomes, outcomePrices): left out,
\* or a text that is empty, malformed, or spells a value that may be an
\* array of strings.
JsonField(present, text, wellFormed, isArray, items) ==
    [present |-> present, text |-> text, wellFormed |-> wellFormed,
     isArray |-> isArray, items |-> items]
NoJsonField == JsonField(FALSE, "", FALSE, FALSE, <<>>)
EmptyJsonField == JsonField(TRUE, "", FALSE, FALSE, <<>>)
BadJsonField == JsonField(TRUE, "x", FALSE, FALSE, <<>>)
ObjectJsonField == JsonField(TRUE, "x", TRUE, FALSE, <<>>)
ArrayJsonField(items) == JsonField(TRUE, "x", TRUE, TRUE, items)

MarketOutcome(label, price) == [label |-> label, price |-> price]

\* A parse that does not compare the lengths and reads a missing price
\* as "0".
parseOutcomes_IgnoreLength(outcomesJson, pricesJson) ==
    IF \/ ~outcomesJson.present \/ outcomesJson.text = ""
       \/ ~pricesJson.present \/ pricesJson.text = ""
    THEN <<>>
    ELSE IF ~outcomesJson.wellFormed \/ ~pricesJson.wellFormed THEN <<>>
    ELSE IF ~outcomesJson.isArray \/ ~pricesJson.isArray THEN <<>>
    ELSE [i \in 1..Len(outcomesJson.items) |->
             LET parsed == IF i <= Len(pricesJson.items)
                           THEN ParseFloat(pricesJson.items[i])
                           ELSE Num(0)
             IN  MarketOutcome(outcomesJson.items[i],
                               IF parsed.nan THEN 0 ELSE parsed.v)]

\* parseOutcomes(outcomesJson, pricesJson)
parseOutcomes(outcomesJson, pricesJson) ==
    IF \/ ~outcomesJson.present \/ outcomesJson.text = ""
       \/ ~pricesJson.present \/ pricesJson.text = ""
    THEN <<>>
    ELSE IF ~outcomesJson.wellFormed \/ ~pricesJson.wellFormed THEN <<>>
    ELSE IF \/ ~outcomesJson.isArray \/ ~pricesJson.isArray
            \/ Len(outcomesJson.items) # Len(pricesJson.items)
    THEN <<>>
    ELSE [i \in 1..Len(outcomesJson.items) |->
             LET parsed == ParseFloat(pricesJson.items[i])
             IN  MarketOutcome(outcomesJson.items[i],
                               IF parsed.nan THEN 0 ELSE parsed.v)]

\* PolymarketMarket and PolymarketEvent as the registry sends them; isNull
\* marks a null body.
PolymarketMarket(hasQuestion, question, outcomes, outcomePrices) ==
    [hasQuestion |-> hasQuestion, question |-> question,
     outcomes |-> outcomes, outcomePrices |-> outcomePrices]
PolymarketEvent(isNull, hasSlug, slug, hasTitle, title, hasMarkets, markets) ==
    [isNull |-> isNull, hasSlug |-> hasSlug, slug |-> slug,
     hasTitle |-> hasTitle, title |-> title,
     hasMarkets |-> hasMarkets, markets |-> markets]
NullEvent == PolymarketEvent(TRUE, FALSE, "", FALSE, "", FALSE, <<>>)

BtcMarketData(question, slug, outcomes) ==
    [question |-> question, slug |-> slug, outcomes |-> outcomes]

\* An entry that takes its slug from the event alone.
PushedMarket_EventSlugOnly(event, market, slug, outcomes) ==
    BtcMarketData(IF market.hasQuestion THEN market.question
                  ELSE IF event.hasTitle THEN event.title ELSE "",
                  IF event.hasSlug THEN event.slug ELSE "",
                  outcomes)

\* markets.push({ question: market.question ?? event.title ?? "",
\*                slug: event.slug ?? slug ?? "", outcomes, ... })
PushedMarket(event, market, slug, outcomes) ==
    BtcMarketData(IF market.hasQuestion THEN market.question
                  ELSE IF event.hasTitle THEN event.title ELSE "",
                  IF event.hasSlug THEN event.slug ELSE slug,
                  outcomes)

\* The loop over event.markets: a market without parsable outcomes is
\* skipped.
RECURSIVE MarketsOfEvent(_, _, _)
MarketsOfEvent(event, markets, slug) ==
    IF markets = <<>> THEN <<>>
    ELSE LET market == Head(markets)
             outcomes == parseOutcomes(market.outcomes, market.outcomePrices)
         IN  (IF Len(outcomes) = 0 THEN <<>>
              ELSE <<PushedMarket(event, market, slug, outcomes)>>)
             \o MarketsOfEvent(event, Tail(markets), slug)

\* How the GET of the registry settled.
Looked(ok, error, event) == [ok |-> ok, error |-> error, event |-> event]

\* fetchBtcUpDownMarkets({ slug }) from the point where its GET settles:
\* the list of markets, or the error of the GET.
fetchBtcUpDownMarkets(slug, looked) ==
    IF ~looked.ok THEN [ok |-> FALSE, error |-> looked.error, markets |-> <<>>]
    ELSE [ok |-> TRUE, error |-> NoError,
          markets |->
            IF looked.event.isNull THEN <<>>
            ELSE MarketsOfEvent(looked.event,
                                IF looked.event.hasMarkets
                                THEN looked.event.markets ELSE <<>>,
                                slug)]

NoMarkets == [ok |-> TRUE, error |-> NoError, markets |-> <<>>]

\* UpDownMarketSnapshot
Snapshot(market_slug, question, outcomes, outcomePrices) ==
    [market_slug |-> market_slug, question |-> question,
     outcomes |-> outcomes, outcomePrices |-> outcomePrices]
NoSnapshot == Snapshot("", "", <<>>, <<>>)

NoMarketError(slug) ==
    Err("Error", "No Polymarket market found for slug: " \o slug)

\* A predict that takes a lookup without markets for an empty snapshot.
SnapshotOf_EmptyWhenNone(slug, fetched) ==
    IF ~fetched.ok THEN [ok |-> FALSE, error |-> fetched.error,
                         snapshot |-> NoSnapshot]
    ELSE IF Len(fetched.markets) = 0
    THEN [ok |-> TRUE, error |-> NoError,
          snapshot |-> Snapshot(slug, "", <<>>, <<>>)]
    ELSE LET m == fetched.markets[1]
         IN  [ok |-> TRUE, error |-> NoError,
              snapshot |->
                Snapshot(m.slug, m.question,
                         [i \in 1..Len(m.outcomes) |-> m.outcomes[i].label],
                         [i \in 1..Len(m.outcomes) |-> m.outcomes[i].price])]

\* predict from the point where fetchBtcUpDownMarkets settles to the call
\* of decideUpDown: the snapshot, or the error thrown.
SnapshotOf(slug, fetched) ==
    IF ~fetched.ok THEN [ok |-> FALSE, error |-> fetched.error,
                         snapshot |-> NoSnapshot]
    ELSE IF Len(fetched.markets) = 0
    THEN [ok |-> FALSE, error |-> NoMarketError(slug), snapshot |-> NoSnapshot]
    ELSE LET m == fetched.markets[1]
         IN  [ok |-> TRUE, error |-> NoError,
              snapshot |->
                Snapshot(m.slug, m.question,
                         [i \in 1..Len(m.outcomes) |-> m.outcomes[i].label],
                         [i \in 1..Len(m.outcomes) |-> m.outcomes[i].price])]

----------------------------------------------------------------------------
(* The GET /api/predict handler and the predictions table.                 *)

\* req.query.symbol: left out, or a string.
Query(present, symbol) == [present |-> present, symbol |-> symbol]

RECURSIVE TrimStart(_)
TrimStart(cs) ==
    IF cs # <<>> /\ Head(cs) = " " THEN TrimStart(Tail(cs)) ELSE cs
RECURSIVE TrimEnd(_)
TrimEnd(cs) ==
    IF cs # <<>> /\ cs[Len(cs)] = " "
    THEN TrimEnd(SubSeq(cs, 1, Len(cs) - 1)) ELSE cs

\* String.prototype.trim
Trim(s) == Join(TrimEnd(TrimStart(Chars(s))))

\* The Direction enum of the table.
DirectionEnum == {"UP", "DOWN", "NO_BET"}

\* The data argument of prisma.prediction.create.
CreateData(symbol, market, marketData, result) ==
    [symbol |-> ToUpperCase(symbol),
     currentPrice |-> IF Len(marketData) = 0 THEN JsNull
                      ELSE IF marketData[1].current_price.t = "undefined"
                      THEN JsNull ELSE marketData[1].current_price,
     marketSlug |-> market.market_slug,
     question |-> market.question,
     outcomes |-> market.outcomes,
     outcomePrices |-> market.outcomePrices,
     direction |-> result.decision.direction,
     sizeUsd |-> result.decision.size_usd,
     maxLossUsd |-> result.decision.max_loss_usd,
     edgeProb |-> result.decision.edge_prob,
     reasoning |-> result.reasoning]
NoRow ==
    [id |-> 0,
     data |-> CreateData("", NoSnapshot, <<>>,
                         Output(JsUndefined, Decision("", JsUndefined, 0, 0, 0)))]

\* The table takes a row whose direction is of its enum and whose
\* reasoning is text.
CreateAccepted(data) ==
    /\ data.direction.t = "string"
    /\ data.direction.s \in DirectionEnum
    /\ data.reasoning.t = "string"

DbUnreachable ==
    Err("PrismaClientInitializationError", "Can't reach database server")
DbValidationError ==
    Err("PrismaClientValidationError", "Invalid value provided")

\* toHistoryResponse(row)
toHistoryResponse(row) ==
    [id |-> row.id,
     symbol |-> row.data.symbol,
     current_price |-> row.data.currentPrice,
     market |-> Snapshot(row.data.marketSlug, row.data.question,
                         row.data.outcomes, row.data.outcomePrices),
     prediction |-> Decision(row.data.marketSlug, row.data.direction,
                             row.data.sizeUsd, row.data.maxLossUsd,
                             row.data.edgeProb),
     reasoning |-> row.data.reasoning]

\* What the handler sent: res.status(...).json({ error }) or res.json(...).
Response(status, error, body) ==
    [status |-> status, error |-> error, body |-> body]
NoResponse == Response(0, "", toHistoryResponse(NoRow))
MissingSymbol ==
    "Missing required query parameter: symbol (e.g. ?symbol=BTC)"
BadRequest == Response(400, MissingSymbol, toHistoryResponse(NoRow))
\* catch (err): err.message of the Error caught.
ServerError(err) == Response(500, err.message, toHistoryResponse(NoRow))
Success(row) == Response(200, "", toHistoryResponse(row))

\* A table that keeps one row per market slug.
Inserted_OnePerMarket(rows, row) ==
    IF \E k \in 1..Len(rows) : rows[k].data.marketSlug = row.data.marketSlug
    THEN rows ELSE Append(rows, row)

\* INSERT into predictions: the table has no unique column but its id.
Inserted(rows, row) == Append(rows, row)

\* A handler that answers with the decision whether or not the create
\* went through.
AfterCreate_AnswerAnyway(accepted, row, error) == Success(row)

\* The handler from the point where prisma.prediction.create settles:
\* res.json(toHistoryResponse(row)), or the catch clause.
AfterCreate(accepted, row, error) ==
    IF accepted THEN Success(row) ELSE ServerError(error)

ContextRequirement ==
    "Decide actions for all assets and return a strict JSON array matching the schema."

\* A context built before any market data is there.
buildUserContext_NoMarketData(marketData, assets) ==
    [market_data |-> <<>>,
     instructions |-> [assets |-> assets, requirement |-> ContextRequirement]]

\* buildUserContext({ marketData, assets }): the payload whose JSON text is
\* the context (the payload holds numbers, null, strings, arrays and
\* objects only, which JSON.stringify spells one to one).
buildUserContext(marketData, assets) ==
    [market_data |-> marketData,
     instructions |-> [assets |-> assets, requirement |-> ContextRequirement]]
NoContext ==
    [market_data |-> <<>>,
     instructions |-> [assets |-> <<>>, requirement |-> ""]]

\* The state of one fetchIndicatorsByDefs: its defs, the index of the
\* definition its loop is at, { values, series } so far, and for each call
\* made whether its request failed for good.
Bundle(defs, next, acc, failed) ==
    [defs |-> defs, next |-> next, acc |-> acc, failed |-> failed]
NoBundle == Bundle(<<>>, 1, NoIndicators, <<>>)
BundleDone(bundle) == bundle.next > Len(bundle.defs)
\* The fetchValue of the price: settled or not, failed or not, its value.
PriceFetch(done, failed, value) ==
    [done |-> done, failed |-> failed, value |-> value]

----------------------------------------------------------------------------
(* What the outside world may answer to one run of the pipeline.           *)

Requests == {1, 2}
MaxFaultyCalls == 1

\* Bodies of the indicator provider.
GoodBody(method, key) ==
    CASE method = "fetchSeries" ->
            ObjectBody(OneField(key, ArrayOf(<<JsNumber(6512345),
                                               JsNumber(4999996)>>)))
      [] method = "fetchValue" ->
            ObjectBody(OneField(key, Scalar(JsNumber(6512345))))
      [] OTHER ->
            ObjectBody(OneField("valueUpperBand",
                                ArrayOf(<<JsNumber(6512345)>>)))
BadBodies == {TextBody("bad"), EmptyObjectBody}

HealthyUpstream(method, key) == Upstream(<<"ok">>, GoodBody(method, key))
AllUpstreams(method, key) ==
    LET runs == RetryRuns(GatewayOptions)
    IN  {Upstream(run, body) :
            run \in {r \in runs : RunSucceeded(r)},
            body \in {GoodBody(method, key)} \cup BadBodies}
        \cup {Upstream(run, NoGwBody) : run \in {r \in runs : ~RunSucceeded(r)}}

\* The provider is down for the whole run, or at most taapiFaultsLeft more
\* calls meet a failed request or a bad body.
UpstreamInputs(method, key) ==
    IF taapiOutage
    THEN {u \in AllUpstreams(method, key) : ~RunSucceeded(u.run)}
    ELSE IF taapiFaultsLeft > 0 THEN AllUpstreams(method, key)
    ELSE {HealthyUpstream(method, key)}

QueryInputs ==
    IF narrowInputs THEN {Query(TRUE, " eth "), Query(TRUE, "ETH")}
    ELSE {Query(FALSE, ""), Query(TRUE, ""), Query(TRUE, " "),
          Query(TRUE, " eth "), Query(TRUE, "ETH")}

PredictClockInputs ==
    {ExampleWindow + 5, ExampleWindow + 899, ExampleWindow + 900}

\* Answers of the market registry to the lookup of slug: the event of that
\* slug (its slug field may be left out), an event without usable markets,
\* a null body, or a failed request.
UpDownMarket ==
    PolymarketMarket(TRUE, "Up or Down?",
                     ArrayJsonField(<<"Up", "Down">>),
                     ArrayJsonField(<<"0.52", "0.48">>))
Found(hasSlug, slug) ==
    Looked(TRUE, NoError,
           PolymarketEvent(FALSE, hasSlug, slug, TRUE, "Up or Down",
                           TRUE, <<UpDownMarket>>))
NotFoundError == Err("AxiosError", "Request failed with status code 404")
LookupInputs(slug) ==
    IF narrowInputs
    THEN {Found(TRUE, slug), Looked(TRUE, NoError, NullEvent)}
    ELSE {Found(TRUE, slug), Found(FALSE, ""),
          Looked(TRUE, NoError, NullEvent),
          Looked(TRUE, NoError,
                 PolymarketEvent(FALSE, TRUE, slug, TRUE, "Up or Down",
                                 FALSE, <<>>)),
          Looked(TRUE, NoError,
                 PolymarketEvent(FALSE, TRUE, slug, TRUE, "Up or Down", TRUE,
                                 <<PolymarketMarket(FALSE, "", BadJsonField,
                                                    ArrayJsonField(<<"0.52">>))>>)),
          Looked(FALSE, NetworkError, NullEvent),
          Looked(FALSE, NotFoundError, NullEvent)}

\* Replies of the LLM.
ReplyWith(direction, size) ==
    Http("response", HttpOk, NoError,
         Body(JsObject, TRUE,
              <<Choice(JsObject, TRUE,
                       Message(StringContent(JsonText(
                           Parsed(JsObject, JsString("x"),
                                  DecisionObject(JsUndefined,
                                                 JsString(direction),
                                                 JsNumber(size),
                                                 JsNumber(size),
                                                 JsNumber(7))))),
                               FALSE, EmptyObject))>>))
LlmReplyInputs ==
    IF narrowInputs
    THEN {ReplyWith("UP", 100), Http("networkError", 0, NetworkError, NoBody)}
    ELSE {ReplyWith("UP", 100), ReplyWith("NO_BET", 0),
          ReplyWith("SIDEWAYS", 100),
          Http("networkError", 0, NetworkError, NoBody),
          Http("statusError", 500, StatusError, NoBody),
          Http("response", HttpOk, NoError,
               Body(JsObject, TRUE,
                    <<Choice(JsObject, TRUE,
                             Message(StringContent(Malformed), FALSE,
                                     EmptyObject))>>))}

----------------------------------------------------------------------------
(* fetchBtcUpDownMarkets with any options: the GET it sends (one event by  *)
(* slug, or the list of active events) and the title filter of the list.   *)

\* options: slug and searchTitle may each be left out.
FetchOptions(hasSlug, slug, hasSearchTitle, searchTitle) ==
    [hasSlug |-> hasSlug, slug |-> slug,
     hasSearchTitle |-> hasSearchTitle, searchTitle |-> searchTitle]
NoFetchOptions == FetchOptions(FALSE, "", FALSE, "")

DefaultSlug == "btc-updown-15m-1770690600"
DefaultSearchTitle == "BTC"

\* const slug = options?.slug ?? "btc-updown-15m-1770690600"
SlugOf(options) == IF options.hasSlug THEN options.slug ELSE DefaultSlug

\* const searchTitle = options?.searchTitle ?? "BTC"
SearchTitleOf(options) ==
    IF options.hasSearchTitle THEN options.searchTitle ELSE DefaultSearchTitle

\* The GET: /events/slug/<slug>, or /events with active, closed and limit.
RegistryGet(kind, slug) == [kind |-> kind, slug |-> slug]
NoRegistryGet == RegistryGet("none", "")

\* if (slug) { axios.get(.../events/slug/...) } else { axios.get(.../events) }
RequestOf(options) ==
    IF SlugOf(options) # "" THEN RegistryGet("eventBySlug", SlugOf(options))
    ELSE RegistryGet("eventList", "")

\* The characters of s.toLowerCase()
LowerChars(s) ==
    [i \in 1..Len(Chars(s)) |->
        Translate(Chars(s)[i], UpperLetters, LowerLetters)]

\* String.prototype.includes, on the characters of both strings
Includes(cs, sub) ==
    \E i \in 0..(Len(cs) - Len(sub)) : SubSeq(cs, i + 1, i + Len(sub)) = sub

\* The two `continue` of the loop over events: the event is passed over.
TitleSkipped(options, event) ==
    LET slug == SlugOf(options)
        title == LowerChars(IF event.hasTitle THEN event.title ELSE "")
    IN  \/ /\ slug = ""
           /\ ~Includes(title, Chars("btc"))
           /\ ~Includes(title, Chars("bitcoin"))
        \/ /\ slug = ""
           /\ options.hasSearchTitle /\ options.searchTitle # ""
           /\ ~Includes(title, LowerChars(SearchTitleOf(options)))

\* The loop over events.
RECURSIVE MarketsOfEvents(_, _)
MarketsOfEvents(options, events) ==
    IF events = <<>> THEN <<>>
    ELSE LET event == Head(events)
         IN  (IF TitleSkipped(options, event) THEN <<>>
              ELSE MarketsOfEvent(event,
                                  IF event.hasMarkets THEN event.markets
                                  ELSE <<>>,
                                  SlugOf(options)))
             \o MarketsOfEvents(options, Tail(events))

\* How the GET settled: res.data is one event (or null) for a GET by slug
\* and an array of events for the list.
RegistryAnswer(ok, error, event, events) ==
    [ok |-> ok, error |-> error, event |-> event, events |-> events]
NoRegistryAnswer == RegistryAnswer(FALSE, NoError, NullEvent, <<>>)

\* fetchBtcUpDownMarkets(options) from the point where its GET settles.
fetchMarketsWith(options, settled) ==
    IF ~settled.ok THEN [ok |-> FALSE, error |-> settled.error, markets |-> <<>>]
    ELSE [ok |-> TRUE, error |-> NoError,
          markets |->
            MarketsOfEvents(options,
                            IF SlugOf(options) # ""
                            THEN (IF settled.event.isNull THEN <<>>
                                  ELSE <<settled.event>>)
                            ELSE settled.events)]

\* Markets as the registry sends them: two with usable outcomes, and one
\* for every way the outcome data can be unusable.
HigherMarket ==
    PolymarketMarket(TRUE, "Higher?",
                     ArrayJsonField(<<"Yes", "No">>),
                     ArrayJsonField(<<"0.48", "0.52">>))
UsableMarkets == {UpDownMarket, HigherMarket}
UnusableMarkets ==
    {PolymarketMarket(TRUE, "bad", NoJsonField, ArrayJsonField(<<"0.52">>)),
     PolymarketMarket(TRUE, "bad", ArrayJsonField(<<"Up">>), NoJsonField),
     PolymarketMarket(TRUE, "bad", ArrayJsonField(<<"Up">>), BadJsonField),
     PolymarketMarket(TRUE, "bad", BadJsonField, ArrayJsonField(<<"0.52">>)),
     PolymarketMarket(TRUE, "bad", ObjectJsonField, ArrayJsonField(<<"0.52">>)),
     PolymarketMarket(TRUE, "bad", ArrayJsonField(<<"Up">>), ObjectJsonField),
     PolymarketMarket(TRUE, "bad", ArrayJsonField(<<"Up", "Down">>),
                      ArrayJsonField(<<"0.52">>)),
     PolymarketMarket(TRUE, "bad", ArrayJsonField(<<"Up">>),
                      ArrayJsonField(<<"0.52", "0.48">>)),
     PolymarketMarket(TRUE, "bad", ArrayJsonField(<<>>), ArrayJsonField(<<>>))}

MaxMarkets == 2
MarketLists ==
    UNION {[1..n -> UsableMarkets \cup UnusableMarkets] : n \in 0..MaxMarkets}

\* Events of the list, by title; the slug of a titled event spells its
\* title, so that a returned market names its event.
TitledEvent(hasTitle, title, markets) ==
    PolymarketEvent(FALSE, hasTitle, title, hasTitle, title, TRUE, markets)
ListedEvents ==
    {TitledEvent(TRUE, "BTC up", <<UpDownMarket>>),
     TitledEvent(TRUE, "Bitcoin up", <<HigherMarket>>),
     TitledEvent(TRUE, "ETH up", <<UpDownMarket>>),
     TitledEvent(TRUE, "ETH vs BTC", <<HigherMarket>>),
     TitledEvent(FALSE, "", <<UpDownMarket>>)}
MaxEvents == 2
EventLists == UNION {[1..n -> ListedEvents] : n \in 0..MaxEvents}

FetchOptionInputs ==
    {FetchOptions(hasSlug, slug, hasSearchTitle, searchTitle) :
        hasSlug \in BOOLEAN, slug \in {"", "eth-updown-15m-900"},
        hasSearchTitle \in BOOLEAN, searchTitle \in {"", "BTC", "ETH", "eth"}}

\* What the registry may answer to a GET.
RegistryAnswers(request) ==
    {RegistryAnswer(FALSE, NetworkError, NullEvent, <<>>)}
    \cup (IF request.kind = "eventBySlug"
          THEN {RegistryAnswer(TRUE, NoError, NullEvent, <<>>)}
               \cup {RegistryAnswer(TRUE, NoError,
                                    PolymarketEvent(FALSE, TRUE, request.slug,
                                                    TRUE, "ETH up", TRUE,
                                                    markets),
                                    <<>>) : markets \in MarketLists}
          ELSE {RegistryAnswer(TRUE, NoError, NullEvent, events) :
                   events \in EventLists})

InitRegistry ==
    /\ fPc = "idle"
    /\ fOptions = NoFetchOptions
    /\ fRequest = NoRegistryGet
    /\ fSettled = NoRegistryAnswer
    /\ fResult = NoMarkets

\* fetchBtcUpDownMarkets(options) up to the await on axios.get.
FetchMarketsCall ==
    /\ fPc = "idle"
    /\ \E options \in FetchOptionInputs :
          /\ fOptions' = options
          /\ fRequest' = RequestOf(options)
    /\ fPc' = "awaitGet"
    /\ UNCHANGED <<fSettled, fResult>>
    /\ UNCHANGED notRegistryVars

\* The rest of fetchBtcUpDownMarkets once the GET has settled.
RegistryGetSettles ==
    /\ fPc = "awaitGet"
    /\ \E settled \in RegistryAnswers(fRequest) :
          /\ fSettled' = settled
          /\ fResult' = fetchMarketsWith(fOptions, settled)
          /\ fPc' = IF settled.ok THEN "returned" ELSE "thrown"
    /\ UNCHANGED <<fOptions, fRequest>>
    /\ UNCHANGED notRegistryVars

NextRegistry == FetchMarketsCall \/ RegistryGetSettles

----------------------------------------------------------------------------
(* The pipeline of a GET /api/predict request: the handler, predict,       *)
(* getCurrentMarketData with the three concurrent fetches of               *)
(* fetchAssetMarketData, the registry lookup, the LLM and the table.       *)

\* The table starts empty, no request has been sent, no fetch has begun.
InitPipeline(pcs, outage, faults, narrow) ==
    /\ hPc = pcs
    /\ hSymbol = [i \in Requests |-> ""]
    /\ hResponse = [i \in Requests |-> NoResponse]
    /\ aIntraday = [i \in Requests |-> NoBundle]
    /\ aLongTerm = [i \in Requests |-> NoBundle]
    /\ aPrice = [i \in Requests |-> PriceFetch(FALSE, FALSE, JsNull)]
    /\ aRequests = [i \in Requests |-> 0]
    /\ pMarketData = [i \in Requests |-> <<>>]
    /\ pContext = [i \in Requests |-> NoContext]
    /\ pPosted = [i \in Requests |-> NoContext]
    /\ pNow = [i \in Requests |-> 0]
    /\ pSlug = [i \in Requests |-> ""]
    /\ pMarkets = [i \in Requests |-> NoMarkets]
    /\ pSnapshot = [i \in Requests |-> NoSnapshot]
    /\ pReply = [i \in Requests |-> NoHttp]
    /\ pResult = [i \in Requests |-> NoOutput]
    /\ nSnapshotGets = [i \in Requests |-> 0]
    /\ nLlmPosts = [i \in Requests |-> 0]
    /\ dbRows = <<>>
    /\ taapiOutage = outage
    /\ taapiFaultsLeft = faults
    /\ narrowInputs = narrow

\* The handler up to the first await of predict: the missing-symbol check,
\* then asset, the defs of getCurrentMarketData and the start of the three
\* fetches.
RequestArrives ==
    /\ \E i \in Requests :
        /\ hPc[i] = "idle"
        /\ \E q \in QueryInputs :
            LET symbol == IF q.present THEN Trim(q.symbol) ELSE ""
                asset == ToUpperCase(symbol)
                defs == ResolveDefs(MarketDataOptions(asset, FALSE,
                                                      NoIdList, NoIdList))
            IN  IF symbol = ""
                THEN /\ hResponse' = [hResponse EXCEPT ![i] = BadRequest]
                     /\ hPc' = [hPc EXCEPT ![i] = "responded"]
                     /\ UNCHANGED <<hSymbol, aIntraday, aLongTerm>>
                ELSE /\ hSymbol' = [hSymbol EXCEPT ![i] = symbol]
                     /\ aIntraday' = [aIntraday EXCEPT
                            ![i] = Bundle(defs.intraday, 1, NoIndicators,
                                          <<>>)]
                     /\ aLongTerm' = [aLongTerm EXCEPT
                            ![i] = Bundle(defs.longTerm, 1, NoIndicators,
                                          <<>>)]
                     /\ hPc' = [hPc EXCEPT ![i] = "gathering"]
                     /\ UNCHANGED hResponse
    /\ UNCHANGED <<aPrice, aRequests, pMarketData, pContext, pPosted, pNow,
                   pSlug, pMarkets, pSnapshot, pReply, pResult, nSnapshotGets,
                   nLlmPosts, dbRows, taapiOutage, taapiFaultsLeft,
                   narrowInputs>>
    /\ UNCHANGED notPredictVars

\* What the provider may answer to the call an iteration makes for def.
IterationInputs(def) ==
    IF DefMethod(def) = "" THEN {Upstream(<<>>, NoGwBody)}
    ELSE UpstreamInputs(DefMethod(def), def.valueKey)

\* One iteration of the loop of fetchIndicatorsByDefs: the delay, the call
\* of the gateway with its retries, and the stores into values and series.
BundleStep(bundle, upstream) ==
    LET def == bundle.defs[bundle.next]
    IN  CHOOSE after \in
            {Bundle(bundle.defs, bundle.next + 1,
                    StoreIndicator(bundle.acc, def, got),
                    Append(bundle.failed, ~RunSucceeded(upstream.run))) :
               got \in {CallGateway(DefMethod(def), def.valueKey,
                                    upstream)}} : TRUE

\* The provider's budget of faulty calls after a call answered upstream.
FaultsAfter(method, key, upstream) ==
    IF upstream = HealthyUpstream(method, key) \/ taapiOutage
       \/ upstream.run = <<>>
    THEN taapiFaultsLeft ELSE taapiFaultsLeft - 1

IntradayIteration ==
    /\ \E i \in Requests :
        /\ hPc[i] = "gathering"
        /\ ~BundleDone(aIntraday[i])
        /\ LET def == aIntraday[i].defs[aIntraday[i].next]
           IN  \E u \in IterationInputs(def) :
                /\ aIntraday' = [aIntraday EXCEPT
                                   ![i] = BundleStep(aIntraday[i], u)]
                /\ aRequests' = [aRequests EXCEPT ![i] = @ + Len(u.run)]
                /\ taapiFaultsLeft' =
                       FaultsAfter(DefMethod(def), def.valueKey, u)
    /\ UNCHANGED <<hPc, hSymbol, hResponse, aLongTerm, aPrice, pMarketData,
                   pContext, pPosted, pNow, pSlug, pMarkets, pSnapshot,
                   pReply, pResult, nSnapshotGets, nLlmPosts, dbRows,
                   taapiOutage, narrowInputs>>
    /\ UNCHANGED notPredictVars

LongTermIteration ==
    /\ \E i \in Requests :
        /\ hPc[i] = "gathering"
        /\ ~BundleDone(aLongTerm[i])
        /\ LET def == aLongTerm[i].defs[aLongTerm[i].next]
           IN  \E u \in IterationInputs(def) :
                /\ aLongTerm' = [aLongTerm EXCEPT
                                   ![i] = BundleStep(aLongTerm[i], u)]
                /\ aRequests' = [aRequests EXCEPT ![i] = @ + Len(u.run)]
                /\ taapiFaultsLeft' =
                       FaultsAfter(DefMethod(def), def.valueKey, u)
    /\ UNCHANGED <<hPc, hSymbol, hResponse, aIntraday, aPrice, pMarketData,
                   pContext, pPosted, pNow, pSlug, pMarkets, pSnapshot,
                   pReply, pResult, nSnapshotGets, nLlmPosts, dbRows,
                   taapiOutage, narrowInputs>>
    /\ UNCHANGED notPredictVars

\* this.taapi.fetchValue('price', symbol, intradayTimeframe, {}, 'value')
PriceSettles ==
    /\ \E i \in Requests :
        /\ hPc[i] = "gathering"
        /\ ~aPrice[i].done
        /\ \E u \in UpstreamInputs("fetchValue", "value") :
            /\ aPrice' = [aPrice EXCEPT
                 ![i] = PriceFetch(TRUE, ~RunSucceeded(u.run),
                            CallGateway("fetchValue", "value", u).value.v)]
            /\ aRequests' = [aRequests EXCEPT ![i] = @ + Len(u.run)]
            /\ taapiFaultsLeft' = FaultsAfter("fetchValue", "value", u)
    /\ UNCHANGED <<hPc, hSymbol, hResponse, aIntraday, aLongTerm, pMarketData,
                   pContext, pPosted, pNow, pSlug, pMarkets, pSnapshot,
                   pReply, pResult, nSnapshotGets, nLlmPosts, dbRows,
                   taapiOutage, narrowInputs>>
    /\ UNCHANGED notPredictVars

\* Promise.all resolves: the section, the return of getCurrentMarketData,
\* and predict up to its GET of the registry.
GatherCompletes ==
    /\ \E i \in Requests :
        /\ hPc[i] = "gathering"
        /\ BundleDone(aIntraday[i])
        /\ BundleDone(aLongTerm[i])
        /\ aPrice[i].done
        /\ \E now \in PredictClockInputs :
          \E asset \in {ToUpperCase(hSymbol[i])} :
            LET section == MarketSection(asset, aPrice[i].value,
                                         aIntraday[i].acc, aLongTerm[i].acc)
                marketData ==
                    AfterGather(MarketDataOptions(asset, FALSE,
                                                  NoIdList, NoIdList),
                                GatherOk(section))
            IN  /\ ~marketData.raised
                /\ pMarketData' = [pMarketData EXCEPT
                                     ![i] = marketData.sections]
                /\ pContext' = [pContext EXCEPT
                                  ![i] = buildUserContext(marketData.sections,
                                                          <<asset>>)]
                /\ pNow' = [pNow EXCEPT ![i] = now]
                /\ pSlug' = [pSlug EXCEPT
                               ![i] = MarketSlug(asset, WindowStart(now))]
        /\ nSnapshotGets' = [nSnapshotGets EXCEPT ![i] = @ + 1]
        /\ hPc' = [hPc EXCEPT ![i] = "awaitSnapshot"]
    /\ UNCHANGED <<hSymbol, hResponse, aIntraday, aLongTerm, aPrice,
                   aRequests, pPosted, pMarkets, pSnapshot, pReply, pResult,
                   nLlmPosts, dbRows, taapiOutage, taapiFaultsLeft,
                   narrowInputs>>
    /\ UNCHANGED notPredictVars

\* The GET of the registry settles: the snapshot and the POST to the LLM,
\* or the throw that the handler answers with a 500.
SnapshotSettles ==
    /\ \E i \in Requests :
        /\ hPc[i] = "awaitSnapshot"
        /\ \E looked \in LookupInputs(pSlug[i]) :
          \E markets \in {fetchBtcUpDownMarkets(pSlug[i], looked)} :
            \E got \in {SnapshotOf(pSlug[i], markets)} :
                /\ pMarkets' = [pMarkets EXCEPT ![i] = markets]
                /\ IF got.ok
                   THEN /\ pSnapshot' = [pSnapshot EXCEPT
                                           ![i] = got.snapshot]
                        /\ nLlmPosts' = [nLlmPosts EXCEPT ![i] = @ + 1]
                        /\ pPosted' = [pPosted EXCEPT ![i] = pContext[i]]
                        /\ hPc' = [hPc EXCEPT ![i] = "awaitLLM"]
                        /\ UNCHANGED hResponse
                   ELSE /\ hResponse' = [hResponse EXCEPT
                                           ![i] = ServerError(got.error)]
                        /\ hPc' = [hPc EXCEPT ![i] = "responded"]
                        /\ UNCHANGED <<pSnapshot, nLlmPosts, pPosted>>
    /\ UNCHANGED <<hSymbol, aIntraday, aLongTerm, aPrice, aRequests,
                   pMarketData, pContext, pNow, pSlug, pReply, pResult,
                   nSnapshotGets, dbRows, taapiOutage, taapiFaultsLeft,
                   narrowInputs>>
    /\ UNCHANGED notPredictVars

\* The POST to the LLM settles: predict returns and the handler calls
\* prisma.prediction.create, or decideUpDown throws.
LlmSettles ==
    /\ \E i \in Requests :
        /\ hPc[i] = "awaitLLM"
        /\ \E h \in LlmReplyInputs :
            LET r == decideUpDown(h, pSnapshot[i].market_slug)
            IN  /\ pReply' = [pReply EXCEPT ![i] = h]
                /\ IF r.ok
                   THEN /\ pResult' = [pResult EXCEPT ![i] = r.out]
                        /\ hPc' = [hPc EXCEPT ![i] = "awaitCreate"]
                        /\ UNCHANGED hResponse
                   ELSE /\ hResponse' = [hResponse EXCEPT
                                           ![i] = ServerError(r.error)]
                        /\ hPc' = [hPc EXCEPT ![i] = "responded"]
                        /\ UNCHANGED pResult
    /\ UNCHANGED <<hSymbol, aIntraday, aLongTerm, aPrice, aRequests,
                   pMarketData, pContext, pPosted, pNow, pSlug, pMarkets,
                   pSnapshot, nSnapshotGets, nLlmPosts, dbRows, taapiOutage,
                   taapiFaultsLeft, narrowInputs>>
    /\ UNCHANGED notPredictVars

\* prisma.prediction.create settles: the row and res.json(...), or the
\* rejection that the handler answers with a 500.
CreateSettles ==
    /\ \E i \in Requests :
        /\ hPc[i] = "awaitCreate"
        /\ \E reachable \in BOOLEAN :
            LET data == CreateData(hSymbol[i], pSnapshot[i], pMarketData[i],
                                   pResult[i])
                row == [id |-> Len(dbRows) + 1, data |-> data]
                accepted == reachable /\ CreateAccepted(data)
                error == IF reachable THEN DbValidationError
                         ELSE DbUnreachable
            IN  /\ dbRows' = IF accepted THEN Inserted(dbRows, row)
                             ELSE dbRows
                /\ hResponse' = [hResponse EXCEPT
                                   ![i] = AfterCreate(accepted, row, error)]
        /\ hPc' = [hPc EXCEPT ![i] = "responded"]
    /\ UNCHANGED <<hSymbol, aIntraday, aLongTerm, aPrice, aRequests,
                   pMarketData, pContext, pPosted, pNow, pSlug, pMarkets,
                   pSnapshot, pReply, pResult, nSnapshotGets, nLlmPosts,
                   taapiOutage, taapiFaultsLeft, narrowInputs>>
    /\ UNCHANGED notPredictVars

NextPredict ==
    RequestArrives \/ IntradayIteration \/ LongTermIteration \/ PriceSettles
    \/ GatherCompletes \/ SnapshotSettles \/ LlmSettles \/ CreateSettles

----------------------------------------------------------------------------
(* fetchAssetMarketData request by request: the two fetchIndicatorsByDefs  *)
(* loops and the price fetch run as three tasks of one Promise.all, each   *)
(* parked at its own await (the delay of the loop, a GET, a backoff of     *)
(* retry).                                                                 *)

Bundles == {"intraday", "longTerm"}
Tasks == Bundles \cup {"price"}

MaxFailedRequests == 3

\* await delay(1000)
IterationDelayMs == 1000

\* What a task did: the loop delay or a backoff elapsed, a GET was sent for
\* the definition at `index` (0 for the price) as attempt number `attempt`,
\* a GET settled.
Step(ev, index, attempt, ms, ok) ==
    [ev |-> ev, index |-> index, attempt |-> attempt, ms |-> ms, ok |-> ok]
Elapsed(ms) == Step("elapsed", 0, 0, ms, TRUE)
Sent(index, attempt) == Step("get", index, attempt, 0, TRUE)
SettledStep(index, attempt, ok) == Step("settled", index, attempt, 0, ok)

\* A loop that does not wait for the call it made.
PhaseAfterSend_NoAwait == "delay"

\* `await this.taapi.<method>(...)`: the task is parked on the GET.
PhaseAfterSend == "inflight"

\* An accumulator that both gathers write to.
AccumulatorOf_Shared(bundle) == "intraday"

\* const values = {}; const series = {}: locals of the call.
AccumulatorOf(bundle) == bundle

\* A section built as soon as the two bundles are in.
SectionReady_BundlesOnly(phase) ==
    phase["intraday"] = "done" /\ phase["longTerm"] = "done"

\* await Promise.all([...]) resolves when all three have.
SectionReady(phase) == \A t \in Tasks : phase[t] = "done"

\* The gateway call a task is making: method and key.
TaskMethod(t, defs, next) ==
    IF t = "price" THEN "fetchValue" ELSE DefMethod(defs[t][next[t]])
TaskKey(t, defs, next) ==
    IF t = "price" THEN "value" ELSE defs[t][next[t]].valueKey

MaxAttemptsOf(o) ==
    IF o.hasMaxAttempts THEN o.maxAttempts ELSE DefaultMaxAttempts
BackoffBaseOf(o) ==
    IF o.hasBackoffBase THEN o.backoffBase ELSE DefaultBackoffBase

\* Selections handed to getCurrentMarketData for the run.
AssetIdInputs ==
    {<<IdList(TRUE, <<"rsi_7", "bbands">>), IdList(TRUE, <<"atr_3", "rsi_7">>)>>,
     <<IdList(TRUE, <<"atr_3">>), IdList(TRUE, <<"nope">>)>>,
     <<IdList(TRUE, <<"atr_3">>), IdList(TRUE, <<"atr_3", "ema_20">>)>>}

InitAsset(faults) ==
    /\ bPc = "idle"
    /\ bDefs = [b \in Bundles |-> <<>>]
    /\ bNext = [b \in Bundles |-> 1]
    /\ bPhase = [t \in Tasks |-> "idle"]
    /\ bAttempt = [t \in Tasks |-> 1]
    /\ bRun = [t \in Tasks |-> <<>>]
    /\ bAcc = [b \in Bundles |-> NoIndicators]
    /\ bCalls = [b \in Bundles |-> <<>>]
    /\ bResult = [b \in Bundles |-> NoIndicators]
    /\ bLog = [t \in Tasks |-> <<>>]
    /\ bPrice = JsNull
    /\ bSection = NoSection
    /\ bFaultsLeft = faults

\* fetchAssetMarketData up to its await: the three calls of the argument of
\* Promise.all each run to their first await.  A gather without
\* definitions returns at once; the price fetch sends its GET.
FetchAssetCall ==
    /\ bPc = "idle"
    /\ \E ids \in AssetIdInputs :
        \E defs \in {ResolveDefs(MarketDataOptions("ETH", FALSE,
                                                   ids[1], ids[2]))} :
          /\ bDefs' = [b \in Bundles |-> IF b = "intraday" THEN defs.intraday
                                         ELSE defs.longTerm]
          /\ bPhase' = [t \in Tasks |->
                           IF t = "price" THEN PhaseAfterSend
                           ELSE IF bDefs'[t] = <<>> THEN "done" ELSE "delay"]
    /\ bLog' = [bLog EXCEPT !["price"] = <<Sent(0, 1)>>]
    /\ bPc' = "gathering"
    /\ UNCHANGED <<bNext, bAttempt, bRun, bAcc, bCalls, bResult, bPrice,
                   bSection, bFaultsLeft>>
    /\ UNCHANGED notAssetVars

\* The delay at the top of an iteration elapses: the iteration calls the
\* gateway method of its definition, which sends the first GET of its retry
\* (a definition without value key makes no call and the loop goes on).
LoopDelayElapsesOf(b) ==
    /\ bPc = "gathering"
    /\ bPhase[b] = "delay"
    /\ IF DefMethod(bDefs[b][bNext[b]]) = ""
       THEN /\ bLog' = [bLog EXCEPT
                           ![b] = Append(@, Elapsed(IterationDelayMs))]
            /\ bNext' = [bNext EXCEPT ![b] = @ + 1]
            /\ bPhase' = [bPhase EXCEPT
                            ![b] = IF bNext[b] + 1 > Len(bDefs[b])
                                   THEN "done" ELSE "delay"]
            /\ bResult' = [bResult EXCEPT
                             ![b] = IF bNext[b] + 1 > Len(bDefs[b])
                                    THEN bAcc[AccumulatorOf(b)] ELSE @]
            /\ bCalls' = [bCalls EXCEPT
                            ![b] = Append(@, Upstream(<<>>, NoGwBody))]
       ELSE /\ bLog' = [bLog EXCEPT
                           ![b] = @ \o <<Elapsed(IterationDelayMs),
                                         Sent(bNext[b], 1)>>]
            /\ bPhase' = [bPhase EXCEPT ![b] = PhaseAfterSend]
            /\ UNCHANGED <<bNext, bResult, bCalls>>
    /\ UNCHANGED <<bPc, bDefs, bAttempt, bRun, bAcc, bPrice, bSection,
                   bFaultsLeft>>
    /\ UNCHANGED notAssetVars

LoopDelayElapses == \E b \in Bundles : LoopDelayElapsesOf(b)

\* What the provider may answer to a GET: a sound body, a body that is not
\* JSON, or a failure (either of the last two uses up one fault).
GetOutcomes(method, key) ==
    {[ok |-> TRUE, body |-> GoodBody(method, key), fault |-> 0]}
    \cup (IF bFaultsLeft > 0
          THEN {[ok |-> TRUE, body |-> TextBody("bad"), fault |-> 1],
                [ok |-> FALSE, body |-> NoGwBody, fault |-> 1]}
          ELSE {})

\* The index of the definition a task is at (0 for the price).
TaskIndex(t) == IF t = "price" THEN 0 ELSE bNext[t]

\* The gateway method returned `got` to task t, from the requests of
\* upstream: the stores of the iteration, then the next iteration (or the
\* return of the gather); for the price, its value.
CallReturns(t, upstream, got) ==
    /\ bRun' = [bRun EXCEPT ![t] = <<>>]
    /\ bAttempt' = [bAttempt EXCEPT ![t] = 1]
    /\ IF t = "price"
       THEN /\ bPrice' = got.value.v
            /\ bPhase' = [bPhase EXCEPT ![t] = "done"]
            /\ UNCHANGED <<bNext, bAcc, bCalls, bResult>>
       ELSE /\ bAcc' = [bAcc EXCEPT
                           ![AccumulatorOf(t)] =
                               StoreIndicator(@, bDefs[t][bNext[t]], got)]
            /\ bCalls' = [bCalls EXCEPT ![t] = Append(@, upstream)]
            /\ bNext' = [bNext EXCEPT ![t] = @ + 1]
            /\ bPhase' = [bPhase EXCEPT
                            ![t] = IF bNext[t] + 1 > Len(bDefs[t])
                                   THEN "done" ELSE "delay"]
            /\ bResult' = [bResult EXCEPT
                             ![t] = IF bNext[t] + 1 > Len(bDefs[t])
                                    THEN bAcc'[AccumulatorOf(t)] ELSE @]
            /\ UNCHANGED bPrice

\* A GET settles.  On success the method returns; on failure retry waits
\* for its backoff, or gives up after the last attempt and the method
\* returns its neutral value.
GetSettlesOf(t) ==
    /\ bPc = "gathering"
    /\ bPhase[t] = "inflight"
    /\ \E method \in {TaskMethod(t, bDefs, bNext)} :
       \E key \in {TaskKey(t, bDefs, bNext)} :
       \E o \in GetOutcomes(method, key) :
       \E run \in {Append(bRun[t], IF o.ok THEN "ok" ELSE "fail")} :
        /\ bLog' = [bLog EXCEPT
                      ![t] = Append(@, SettledStep(TaskIndex(t),
                                                   bAttempt[t], o.ok))]
        /\ bFaultsLeft' = bFaultsLeft - o.fault
        /\ IF ~o.ok /\ ShouldWait(bAttempt[t], MaxAttemptsOf(GatewayOptions))
           THEN /\ bRun' = [bRun EXCEPT ![t] = run]
                /\ bPhase' = [bPhase EXCEPT ![t] = "backoff"]
                /\ UNCHANGED <<bAttempt, bNext, bAcc, bCalls, bResult,
                               bPrice>>
           ELSE \E upstream \in {Upstream(run, o.body)} :
                \E got \in {CallGateway(method, key, upstream)} :
                    CallReturns(t, upstream, got)
    /\ UNCHANGED <<bPc, bDefs, bSection>>
    /\ UNCHANGED notAssetVars

GetSettles == \E t \in Tasks : GetSettlesOf(t)

\* The backoff of retry elapses: the next attempt sends its GET.
BackoffElapsesOf(t) ==
    /\ bPc = "gathering"
    /\ bPhase[t] = "backoff"
    /\ bLog' = [bLog EXCEPT
                  ![t] = @ \o <<Elapsed(DelayMs(BackoffBaseOf(GatewayOptions),
                                                bAttempt[t])),
                                Sent(TaskIndex(t), bAttempt[t] + 1)>>]
    /\ bAttempt' = [bAttempt EXCEPT ![t] = @ + 1]
    /\ bPhase' = [bPhase EXCEPT ![t] = PhaseAfterSend]
    /\ UNCHANGED <<bPc, bDefs, bNext, bRun, bAcc, bCalls, bResult, bPrice,
                   bSection, bFaultsLeft>>
    /\ UNCHANGED notAssetVars

BackoffElapses == \E t \in Tasks : BackoffElapsesOf(t)

\* Promise.all resolves and fetchAssetMarketData returns the section.
SectionBuilt ==
    /\ bPc = "gathering"
    /\ SectionReady(bPhase)
    /\ bSection' = MarketSection("ETH", bPrice, bResult["intraday"],
                                 bResult["longTerm"])
    /\ bPc' = "returned"
    /\ UNCHANGED <<bDefs, bNext, bPhase, bAttempt, bRun, bAcc, bCalls,
                   bResult, bLog, bPrice, bFaultsLeft>>
    /\ UNCHANGED notAssetVars

NextAsset ==
    FetchAssetCall \/ LoopDelayElapses \/ GetSettles \/ BackoffElapses
    \/ SectionBuilt

----------------------------------------------------------------------------
(* The GET /api/predictions handler: a read of the predictions table.      *)

\* take: 200
HistoryTake == 200

RECURSIVE Reverse(_)
Reverse(seq) ==
    IF seq = <<>> THEN <<>> ELSE Append(Reverse(Tail(seq)), Head(seq))

\* prisma.prediction.findMany({ where, orderBy: { timestamp: 'desc' },
\* take: 200 }): the rows of that market slug (all rows when the filter is
\* left out or empty), newest first.  A row takes the time of its insert
\* as timestamp, so newest first is the reverse of the order of insertion.
findMany(rows, query) ==
    LET marketSlug == IF query.present THEN Trim(query.symbol) ELSE ""
        Matches(row) == marketSlug = "" \/ row.data.marketSlug = marketSlug
        found == Reverse(SelectSeq(rows, Matches))
    IN  SubSeq(found, 1, IF Len(found) < HistoryTake THEN Len(found)
                         ELSE HistoryTake)

\* res.json(rows.map(toHistoryResponse)), or the catch clause.
HistoryResponse(status, error, body) ==
    [status |-> status, error |-> error, body |-> body]
NoHistoryResponse == HistoryResponse(0, "", <<>>)
AfterFind(found, rows, error) ==
    IF found
    THEN HistoryResponse(200, "",
                         [k \in 1..Len(rows) |-> toHistoryResponse(rows[k])])
    ELSE HistoryResponse(500, error.message, <<>>)

\* A read that empties what it returned.
TableAfterFind_Consumed(rows, found) ==
    SelectSeq(rows, LAMBDA row : \A k \in 1..Len(found) : found[k] # row)

\* findMany is a SELECT: the table is as it was.
TableAfterFind(rows, found) == rows

HistoryQueryInputs ==
    {Query(FALSE, ""), Query(TRUE, " eth-updown-15m-1770690600"),
     Query(TRUE, "btc-updown-15m-900")}

InitHistory ==
    /\ qPc = "idle"
    /\ qQuery = Query(FALSE, "")
    /\ qResponse = NoHistoryResponse

\* The handler up to the await on findMany; a client may ask again once it
\* has its answer.
PredictionsArrives ==
    /\ qPc \in {"idle", "responded"}
    /\ \E q \in HistoryQueryInputs : qQuery' = q
    /\ qPc' = "awaitFind"
    /\ qResponse' = NoHistoryResponse
    /\ UNCHANGED notHistoryVars

\* findMany settles: the rows, or the error of the database.
FindManySettles ==
    /\ qPc = "awaitFind"
    /\ \E reached \in BOOLEAN :
          \E found \in {findMany(dbRows, qQuery)} :
             /\ qResponse' = AfterFind(reached, found, DbUnreachable)
             /\ dbRows' = IF reached THEN TableAfterFind(dbRows, found)
                          ELSE dbRows
    /\ qPc' = "responded"
    /\ UNCHANGED qQuery
    /\ UNCHANGED <<hPc, hSymbol, hResponse, aIntraday, aLongTerm, aPrice,
                   aRequests, pMarketData, pContext, pPosted, pNow, pSlug,
                   pMarkets, pSnapshot, pReply, pResult, nSnapshotGets,
                   nLlmPosts, taapiOutage, taapiFaultsLeft, narrowInputs>>
    /\ UNCHANGED <<decideVars, retryVars, gatewayVars, marketDataVars,
                   slugVars, registryVars, assetVars, clockVars, bundleVars,
                   roundVars, windowVars, appVars, betVars>>

NextLog == NextPredict \/ PredictionsArrives \/ FindManySettles

----------------------------------------------------------------------------
(* predict on the wall clock: the instant it is invoked, the instants the  *)
(* requests for market data are sent, and the instant `now` is read.       *)

\* A value of Date.now(): the whole seconds since the epoch and the
\* milliseconds beyond them.
Instant(sec, ms) == [sec |-> sec, ms |-> ms]
\* instant + d milliseconds
Later(instant, d) ==
    Instant(instant.sec + (instant.ms + d) \div 1000, (instant.ms + d) % 1000)
\* a >= b
NotBefore(a, b) == a.sec > b.sec \/ (a.sec = b.sec /\ a.ms >= b.ms)
\* Math.floor(Date.now() / 1000)
UnixSeconds(instant) == instant.sec

\* A clock that is read as predict is entered.
ClockAtSlug_AtInvocation(invoked, afterAwait) == invoked

\* `const now = ...` stands after `await this.getCurrentMarketData(...)`.
ClockAtSlug(invoked, afterAwait) == afterAwait

MaxTicks == 7
StartOffsets == {5, 893, 899}
StartInstants ==
    {Instant(ExampleWindow + d, ms) : d \in StartOffsets, ms \in {0, 999}}
NoInstant == Instant(0, 0)

InitClock ==
    /\ cPc = "idle"
    /\ cSymbol = ""
    /\ cClock = NoInstant
    /\ cTicks = 0
    /\ cInvoked = NoInstant
    /\ cFetched = NoInstant
    /\ cLeft = [b \in Bundles |-> 0]
    /\ cPhase = [t \in Tasks |-> "idle"]
    /\ cWake = [b \in Bundles |-> NoInstant]
    /\ cDone = NoInstant
    /\ cNow = 0
    /\ cSlug = ""

\* predict(symbol), invoked at some instant, up to the awaits of fetchAssetMarketData: the GET of the
\* price is sent, each gather with definitions starts its first delay.
PredictCalled ==
    /\ cPc = "idle"
    /\ \E symbol \in {"btc", "ETH"} :
        LET defs == ResolveDefs(MarketDataOptions(ToUpperCase(symbol), FALSE,
                                                  NoIdList, NoIdList))
        IN  /\ cSymbol' = symbol
            /\ cLeft' = [b \in Bundles |-> Len(defs[b])]
            /\ cPhase' = [t \in Tasks |->
                            IF t = "price" THEN "inflight"
                            ELSE IF Len(defs[t]) = 0 THEN "done"
                            ELSE "delay"]
    /\ \E start \in StartInstants :
        /\ cClock' = start
        /\ cInvoked' = start
        /\ cFetched' = start
        /\ cWake' = [b \in Bundles |-> Later(start, IterationDelayMs)]
    /\ cPc' = "gathering"
    /\ UNCHANGED <<cTicks, cDone, cNow, cSlug>>
    /\ UNCHANGED notClockVars

\* Time passes while predict is parked at an await.
TimePasses ==
    /\ cPc = "gathering"
    /\ cTicks < MaxTicks
    /\ cClock' = Later(cClock, IterationDelayMs)
    /\ cTicks' = cTicks + 1
    /\ UNCHANGED <<cPc, cSymbol, cInvoked, cFetched, cLeft, cPhase, cWake,
                   cDone, cNow, cSlug>>
    /\ UNCHANGED notClockVars

\* `await delay(1000)` is over: the gather sends the GET of its definition.
IndicatorGetSent ==
    /\ cPc = "gathering"
    /\ \E b \in Bundles :
        /\ cPhase[b] = "delay"
        /\ NotBefore(cClock, cWake[b])
        /\ cPhase' = [cPhase EXCEPT ![b] = "inflight"]
    /\ cFetched' = cClock
    /\ UNCHANGED <<cPc, cSymbol, cClock, cTicks, cInvoked, cLeft, cWake,
                   cDone, cNow, cSlug>>
    /\ UNCHANGED notClockVars

\* The gateway call of a task returns (after one request or several): the
\* price fetch is done, a gather goes to its next definition or returns.
MarketDataGetSettles ==
    /\ cPc = "gathering"
    /\ \E t \in Tasks :
        /\ cPhase[t] = "inflight"
        /\ IF t = "price"
           THEN /\ cPhase' = [cPhase EXCEPT ![t] = "done"]
                /\ UNCHANGED <<cLeft, cWake>>
           ELSE /\ cLeft' = [cLeft EXCEPT ![t] = @ - 1]
                /\ cPhase' = [cPhase EXCEPT
                                ![t] = IF cLeft[t] = 1 THEN "done"
                                       ELSE "delay"]
                /\ cWake' = [cWake EXCEPT
                               ![t] = Later(cClock, IterationDelayMs)]
    /\ UNCHANGED <<cPc, cSymbol, cClock, cTicks, cInvoked, cFetched, cDone,
                   cNow, cSlug>>
    /\ UNCHANGED notClockVars

\* Promise.all resolved and getCurrentMarketData returned: predict builds
\* the context, reads the clock and computes the slug it looks up.
ClockRead ==
    /\ cPc = "gathering"
    /\ \A t \in Tasks : cPhase[t] = "done"
    /\ LET asset == ToUpperCase(cSymbol)
           now == UnixSeconds(ClockAtSlug(cInvoked, cClock))
           roundedTimestamp == WindowStart(now)
       IN  /\ cNow' = now
           /\ cSlug' = MarketSlug(asset, roundedTimestamp)
    /\ cDone' = cClock
    /\ cPc' = "lookup"
    /\ UNCHANGED <<cSymbol, cClock, cTicks, cInvoked, cFetched, cLeft,
                   cPhase, cWake>>
    /\ UNCHANGED notClockVars

NextClock ==
    PredictCalled \/ TimePasses \/ IndicatorGetSent \/ MarketDataGetSettles
    \/ ClockRead

----------------------------------------------------------------------------
(* One bundle gather call by call: the ids getCurrentMarketData resolves,  *)
(* then fetchIndicatorsByDefs over whatever the provider may answer.       *)

BandKeys == {"valueUpperBand", "valueMiddleBand", "valueLowerBand"}

\* Arrays a provider may put under a key.
ArrayInputs ==
    {<<JsNumber(6512345), JsNumber(4999996)>>,
     <<JsNumber(6512345), JsNull>>,
     <<JsNumber(6512345), JsString("x")>>,
     <<JsNull>>,
     <<>>}

\* Answers to the call of method with key: a body that carries the key (or
\* the three band keys), a body without it, a text body, or a request that
\* fails on every attempt.
BundleUpstreams(method, key) ==
    IF method = "" THEN {Upstream(<<>>, NoGwBody)}
    ELSE {Upstream(<<"fail", "fail", "fail">>, NoGwBody),
          Upstream(<<"ok">>, TextBody("bad")),
          Upstream(<<"fail", "ok">>, EmptyObjectBody)}
         \cup
         (CASE method = "fetchValue" ->
                 {Upstream(<<"ok">>, ObjectBody(OneField(key, f))) :
                     f \in {Scalar(JsNumber(6512345)), Scalar(JsString("x"))}}
            [] method = "fetchSeries" ->
                 {Upstream(<<"ok">>, ObjectBody(OneField(key, ArrayOf(arr)))) :
                     arr \in ArrayInputs}
            [] OTHER ->
                 {Upstream(<<"ok">>, ObjectBody([k \in BandKeys |-> f])) :
                     f \in {ArrayOf(<<JsNumber(6512345), JsNumber(4999996)>>),
                            ArrayOf(<<JsNumber(6512345), JsString("x")>>),
                            Scalar(JsNumber(6512345))}}
                 \cup {Upstream(<<"ok">>, GoodBody(method, key))})

\* Selections for the intraday bundle.
BundleIdInputs ==
    {NoIdList, IdList(TRUE, <<>>), IdList(TRUE, <<"nope">>),
     IdList(TRUE, <<"nope", "zzz">>),
     IdList(TRUE, <<"rsi_7", "bbands">>),
     IdList(TRUE, <<"bbands", "nope", "atr_3">>),
     IdList(TRUE, <<"atr_3", "nope", "rsi_7", "atr_3">>)}

\* A gateway call of the gather: the index of its definition, the method.
GatewayCallOf(index, method, upstream) ==
    [index |-> index, method |-> method, upstream |-> upstream]

InitBundle ==
    /\ kPc = "idle"
    /\ kIds = NoIdList
    /\ kBundle = NoBundle
    /\ kCalls = <<>>
    /\ kResult = NoIndicators

\* getCurrentMarketData resolves the ids of the intraday bundle and
\* fetchIndicatorsByDefs is entered with the definitions.
BundleGatherCall ==
    /\ kPc = "idle"
    /\ \E idList \in BundleIdInputs :
        LET defs == ResolveDefs(MarketDataOptions("ETH", FALSE, idList,
                                                  NoIdList))
        IN  /\ kIds' = idList
            /\ kBundle' = Bundle(defs.intraday, 1, NoIndicators, <<>>)
    /\ kPc' = "gathering"
    /\ UNCHANGED <<kCalls, kResult>>
    /\ UNCHANGED notBundleVars

\* One iteration of the loop: the call of the branch the definition takes
\* and the stores into values and series.
BundleIteration ==
    /\ kPc = "gathering"
    /\ ~BundleDone(kBundle)
    /\ LET def == kBundle.defs[kBundle.next]
       IN  \E u \in BundleUpstreams(DefMethod(def), def.valueKey) :
            /\ kBundle' = BundleStep(kBundle, u)
            /\ kCalls' = IF DefMethod(def) = "" THEN kCalls
                         ELSE Append(kCalls,
                                     GatewayCallOf(kBundle.next,
                                                   DefMethod(def), u))
    /\ UNCHANGED <<kPc, kIds, kResult>>
    /\ UNCHANGED notBundleVars

\* return { values, series }
BundleReturns ==
    /\ kPc = "gathering"
    /\ BundleDone(kBundle)
    /\ kResult' = kBundle.acc
    /\ kPc' = "returned"
    /\ UNCHANGED <<kIds, kBundle, kCalls>>
    /\ UNCHANGED notBundleVars

NextBundle == BundleGatherCall \/ BundleIteration \/ BundleReturns

----------------------------------------------------------------------------
(* The roundings: Math.round(v * 10000) / 10000 of the gateway and         *)
(* roundOrNull of the aggregator, applied once and once more.              *)

\* Numbers at and next to the halves of the steps, in units of 0.00001.
RoundNumbers ==
    {s * (h + e) : s \in {-1, 1},
                   h \in {0, 5, 500, 1500, 50000, 150000, 6512345},
                   e \in (-1)..1}
RoundInputs ==
    {JsNumber(n) : n \in RoundNumbers}
    \cup {JsNull, JsUndefined, JsString("x"), JsString("10"), JsString("")}
DecimalsInputs == {0, 2, 4}

InitRound ==
    /\ oPc = "idle"
    /\ oBy = ""
    /\ oValue = JsUndefined
    /\ oDecimals = 0
    /\ oOnce = JsUndefined
    /\ oTwice = JsUndefined
    /\ oGwTwice = JsUndefined

\* roundOrNull(value, decimals)
AggregatorRounds ==
    /\ oPc = "idle"
    /\ \E value \in RoundInputs, decimals \in DecimalsInputs :
        /\ oValue' = value
        /\ oDecimals' = decimals
        /\ oOnce' = roundOrNull(value, decimals)
    /\ oBy' = "aggregator"
    /\ oPc' = "once"
    /\ UNCHANGED <<oTwice, oGwTwice>>
    /\ UNCHANGED notRoundVars

\* typeof v === 'number' ? Math.round(v * 10000) / 10000 : v, the rounding
\* of an entry in fetchSeries (and of val in fetchValue).
GatewayRounds ==
    /\ oPc = "idle"
    /\ \E value \in RoundInputs :
        /\ oValue' = value
        /\ oOnce' = RoundEntry(value)
    /\ oDecimals' = 4
    /\ oBy' = "gateway"
    /\ oPc' = "once"
    /\ UNCHANGED <<oTwice, oGwTwice>>
    /\ UNCHANGED notRoundVars

\* The rounded value is rounded once more, to the same decimals.
RoundsAgain ==
    /\ oPc = "once"
    /\ oTwice' = roundOrNull(oOnce, oDecimals)
    /\ oGwTwice' = RoundEntry(oOnce)
    /\ oPc' = "twice"
    /\ UNCHANGED <<oBy, oValue, oDecimals, oOnce>>
    /\ UNCHANGED notRoundVars

NextRound == AggregatorRounds \/ GatewayRounds \/ RoundsAgain

----------------------------------------------------------------------------
(* getMarketWindow of the frontend (AutoStatus), next to the rounding of   *)
(* predict.                                                                *)

\* Math.max(a, b)
MathMax(a, b) == IF a >= b THEN a ELSE b

\* { start, end, remainingSec }; start and end are the Dates of
\* windowStart * 1000 and windowEnd * 1000.
MarketWindow(start, end, remainingSec) ==
    [start |-> start, end |-> end, remainingSec |-> remainingSec]
NoMarketWindow == MarketWindow(NoInstant, NoInstant, 0)

\* A window that starts at the nearest quarter of an hour.
getMarketWindow_Nearest(instant) ==
    LET nowSec == UnixSeconds(instant)
        windowStart == ((nowSec + 450) \div 900) * 900
        windowEnd == windowStart + 900
        remaining == windowEnd - nowSec
    IN  MarketWindow(Instant(windowStart, 0), Instant(windowEnd, 0),
                     MathMax(0, remaining))

\* getMarketWindow() when Date.now() is instant
getMarketWindow(instant) ==
    LET nowSec == UnixSeconds(instant)
        windowStart == (nowSec \div (15 * 60)) * (15 * 60)
        windowEnd == windowStart + 15 * 60
        remaining == windowEnd - nowSec
    IN  MarketWindow(Instant(windowStart, 0), Instant(windowEnd, 0),
                     MathMax(0, remaining))

WindowInstants ==
    {Instant(sec, ms) : sec \in ClockInputs, ms \in {0, 500, 999}}

InitWindow ==
    /\ wPc = "idle"
    /\ wInstant = NoInstant
    /\ wWindow = NoMarketWindow
    /\ wRounded = 0

\* The frontend computes the window of the current market.
WindowComputed ==
    /\ wPc = "idle"
    /\ \E instant \in WindowInstants :
        /\ wInstant' = instant
        /\ wWindow' = getMarketWindow(instant)
    /\ wPc' = "client"
    /\ UNCHANGED wRounded
    /\ UNCHANGED notWindowVars

\* predict rounds the same clock value for its slug.
SlugRounded ==
    /\ wPc = "client"
    /\ LET now == UnixSeconds(wInstant)
       IN  wRounded' = WindowStart(now)
    /\ wPc' = "both"
    /\ UNCHANGED <<wInstant, wWindow>>
    /\ UNCHANGED notWindowVars

NextWindow == WindowComputed \/ SlugRounded

----------------------------------------------------------------------------
(* The frontend App: manual and automatic prediction.  A handler runs to   *)
(* its end and React renders before the next event, so the state a handler *)
(* reads is the state the handlers before it have set.  autoSymbol "" and  *)
(* a ref of 0 stand for null.                                              *)

AUTO_INTERVAL_MS == 60000
MaxAutoCount == 2
MaxInFlight == 2

\* An interval timer of the browser: its id, whose it is, the symbol its
\* callback closes over.
Timer(id, kind, symbol) == [id |-> id, kind |-> kind, symbol |-> symbol]
\* A GET /api/predict the mutation has sent; trigger tells who asked.
PredictRequest(symbol, trigger) == [symbol |-> symbol, trigger |-> trigger]

AppState(mounted, autoSymbol, autoCount, countdown, autoIntervalRef, countdownRef, isPendingRef, timers, inFlight, lastResult, error) ==
    [mounted |-> mounted, autoSymbol |-> autoSymbol, autoCount |-> autoCount,
     countdown |-> countdown, autoIntervalRef |-> autoIntervalRef,
     countdownRef |-> countdownRef, isPendingRef |-> isPendingRef,
     timers |-> timers, inFlight |-> inFlight, lastResult |-> lastResult,
     error |-> error]

\* The id setInterval returns: one that no active timer has.
FreeTimerId(timers) ==
    CHOOSE id \in 1..(Cardinality(timers) + 1) :
        \A t \in timers : t.id # id

\* A clearInterval that leaves the timer running.
clearInterval_Noop(timers, id) == timers

\* clearInterval(id)
clearInterval(timers, id) == {t \in timers : t.id # id}

\* A runPredict without its guard.
RunPredictSkips_Never(isPending) == FALSE

\* if (isPendingRef.current) return;
RunPredictSkips(isPending) == isPending

\* runPredict(symbol)
runPredict(app, symbol, trigger) ==
    IF RunPredictSkips(app.isPendingRef) THEN app
    ELSE [app EXCEPT !.isPendingRef = TRUE,
                     !.error = "",
                     !.inFlight = Append(@, PredictRequest(symbol, trigger))]

\* startCountdown()
startCountdown(app) ==
    LET cleared == IF app.countdownRef # 0
                   THEN clearInterval(app.timers, app.countdownRef)
                   ELSE app.timers
        id == FreeTimerId(cleared)
    IN  [app EXCEPT !.countdown = AUTO_INTERVAL_MS \div 1000,
                    !.countdownRef = id,
                    !.timers = cleared \cup {Timer(id, "countdown", "")}]

\* stopAuto()
stopAuto(app) ==
    LET noAuto == IF app.autoIntervalRef # 0
                  THEN clearInterval(app.timers, app.autoIntervalRef)
                  ELSE app.timers
        noCountdown == IF app.countdownRef # 0
                       THEN clearInterval(noAuto, app.countdownRef)
                       ELSE noAuto
    IN  [app EXCEPT !.timers = noCountdown,
                    !.autoIntervalRef = 0,
                    !.countdownRef = 0,
                    !.autoSymbol = "",
                    !.autoCount = 0,
                    !.countdown = 0]

\* startAuto(symbol)
startAuto(app, symbol) ==
    LET stopped == stopAuto(app)
        named == [stopped EXCEPT !.autoSymbol = symbol, !.autoCount = 0]
        counting == startCountdown(runPredict(named, symbol, "auto"))
        id == FreeTimerId(counting.timers)
    IN  [counting EXCEPT !.autoIntervalRef = id,
                         !.timers = @ \cup {Timer(id, "auto", symbol)}]

\* handlePredict(symbol)
handlePredict(app, symbol) ==
    IF app.autoSymbol # "" THEN app ELSE runPredict(app, symbol, "manual")

\* handleAutoToggle(symbol); "" is null
handleAutoToggle(app, symbol) ==
    IF symbol # "" THEN startAuto(app, symbol) ELSE stopAuto(app)

\* PredictionForm.handleSubmit with `text` in the input
handleSubmit(app, text) ==
    LET isAuto == app.autoSymbol # ""
        trimmed == ToUpperCase(Trim(text))
    IN  IF isAuto THEN app
        ELSE IF trimmed # "" THEN handlePredict(app, trimmed)
        ELSE app

\* PredictionForm.handleAutoClick with `text` in the input
handleAutoClick(app, text) ==
    LET isAuto == app.autoSymbol # ""
        trimmed == ToUpperCase(Trim(text))
    IN  IF isAuto THEN handleAutoToggle(app, "")
        ELSE IF trimmed # "" THEN handleAutoToggle(app, trimmed)
        ELSE app

\* The callback of the interval startAuto sets.
autoTick(app, timer) == startCountdown(runPredict(app, timer.symbol, "auto"))

\* setCountdown((c) => (c > 0 ? c - 1 : 0))
countdownTick(app) ==
    [app EXCEPT !.countdown = IF @ > 0 THEN @ - 1 ELSE 0]

\* onSuccess, then onSettled
mutationSucceeds(app, k) ==
    [app EXCEPT !.lastResult = app.inFlight[k].symbol,
                !.error = "",
                !.autoCount = IF app.autoSymbol # "" THEN @ + 1 ELSE @,
                !.isPendingRef = FALSE,
                !.inFlight = SubSeq(@, 1, k - 1) \o SubSeq(@, k + 1, Len(@))]

\* onError, then onSettled
mutationFails(app, k, message) ==
    [app EXCEPT !.error = message,
                !.isPendingRef = FALSE,
                !.inFlight = SubSeq(@, 1, k - 1) \o SubSeq(@, k + 1, Len(@))]

\* The cleanup of the effect: the component is unmounted.
unmount(app) ==
    LET noAuto == IF app.autoIntervalRef # 0
                  THEN clearInterval(app.timers, app.autoIntervalRef)
                  ELSE app.timers
        noCountdown == IF app.countdownRef # 0
                       THEN clearInterval(noAuto, app.countdownRef)
                       ELSE noAuto
    IN  [app EXCEPT !.timers = noCountdown, !.mounted = FALSE]

\* What the user may have typed.
SymbolTexts == {"", " ", " eth ", "BTC"}

AppEvent(name, arg) == [name |-> name, arg |-> arg]

InitApp ==
    /\ uApp = AppState(TRUE, "", 0, 0, 0, 0, FALSE, {}, <<>>, "", "")
    /\ uEvent = AppEvent("", "")

\* The form is submitted.
SubmitForm ==
    /\ uApp.mounted
    /\ \E text \in SymbolTexts :
        /\ uApp' = handleSubmit(uApp, text)
        /\ uEvent' = AppEvent("submit", text)
    /\ Len(uApp'.inFlight) <= MaxInFlight
    /\ UNCHANGED notAppVars

\* The auto button is clicked.
ClickAuto ==
    /\ uApp.mounted
    /\ \E text \in SymbolTexts :
        /\ uApp' = handleAutoClick(uApp, text)
        /\ uEvent' = AppEvent("autoClick", text)
    /\ Len(uApp'.inFlight) <= MaxInFlight
    /\ UNCHANGED notAppVars

\* An interval of startAuto fires.
AutoTimerFires ==
    /\ \E timer \in uApp.timers :
        /\ timer.kind = "auto"
        /\ uApp' = autoTick(uApp, timer)
        /\ uEvent' = AppEvent("autoTick", timer.symbol)
    /\ Len(uApp'.inFlight) <= MaxInFlight
    /\ UNCHANGED notAppVars

\* An interval of startCountdown fires.
CountdownTimerFires ==
    /\ \E timer \in uApp.timers :
        /\ timer.kind = "countdown"
        /\ uApp' = countdownTick(uApp)
    /\ uEvent' = AppEvent("countdownTick", "")
    /\ UNCHANGED notAppVars

\* A request of the mutation settles: the response, or an error.
MutationSettles ==
    /\ \E k \in 1..Len(uApp.inFlight) :
        \/ /\ uApp.autoSymbol # "" => uApp.autoCount < MaxAutoCount
           /\ uApp' = mutationSucceeds(uApp, k)
           /\ uEvent' = AppEvent("success", uApp.inFlight[k].symbol)
        \/ /\ uApp' = mutationFails(uApp, k, "Request failed (500)")
           /\ uEvent' = AppEvent("error", uApp.inFlight[k].symbol)
    /\ UNCHANGED notAppVars

\* The component is unmounted.
Unmounts ==
    /\ uApp.mounted
    /\ uApp' = unmount(uApp)
    /\ uEvent' = AppEvent("unmount", "")
    /\ UNCHANGED notAppVars

NextApp ==
    SubmitForm \/ ClickAuto \/ AutoTimerFires \/ CountdownTimerFires
    \/ MutationSettles \/ Unmounts

----------------------------------------------------------------------------
(* Placing a bet: handlePlaceBet of the PredictionCard, the route          *)
(* POST /api/place-bet and placePolymarketBet.  Amounts, prices and sizes  *)
(* are in units of 0.00001.                                                *)

\* x == null
Nullish(v) == v.t \in {"undefined", "null"}

\* parseFloat(s) of a decimal text that may start with a sign.
ParseFloatSigned(s) ==
    LET cs == Chars(s)
        signed == cs # <<>> /\ Head(cs) \in {"-", "+"}
        parsed == PrefixValue(NumericPrefix(IF signed THEN Tail(cs) ELSE cs,
                                            FALSE))
    IN  IF parsed.nan THEN NaN
        ELSE IF signed /\ Head(cs) = "-" THEN Num(0 - parsed.v)
        ELSE parsed

\* outcomes.findIndex(o => o.toLowerCase() === label): -1 when there is none
FindIndex(outcomes, label) ==
    LET hits == {i \in 1..Len(outcomes) : ToLowerCase(outcomes[i]) = label}
    IN  IF hits = {} THEN -1
        ELSE (CHOOSE i \in hits : \A j \in hits : i <= j) - 1

\* array[index]: undefined outside the array
ElementAt(array, index) ==
    IF index + 1 \in 1..Len(array) THEN array[index + 1] ELSE JsUndefined

\* The props and the state of a PredictionCard the handler reads.
BetCard(outcomes, outcomePrices, clobTokenIds, betSide, betAmount) ==
    [outcomes |-> outcomes, outcomePrices |-> outcomePrices,
     clobTokenIds |-> clobTokenIds, betSide |-> betSide,
     betAmount |-> betAmount]
NoCard == BetCard(<<>>, <<>>, <<>>, "", "")

\* { tokenId, price, size, side }: the params of betMutation.mutate, the
\* JSON body of the request and the params of placePolymarketBet.
BetParams(tokenId, price, size, side) ==
    [tokenId |-> tokenId, price |-> price, size |-> size, side |-> side]
NoRequest == BetParams(JsUndefined, JsUndefined, JsUndefined, JsUndefined)

\* Math.round(shares * 100) / 100 with shares = usdAmount / selectedPrice
RoundedShares(usdAmount, selectedPrice) ==
    IF selectedPrice > 0
    THEN ((200 * usdAmount + selectedPrice) \div (2 * selectedPrice)) * 1000
    ELSE 0

\* handlePlaceBet: the calls of betMutation.mutate it makes (none or one).
handlePlaceBet(card) ==
    LET hasTokenIds == Len(card.clobTokenIds) >= 2
        upIndex == FindIndex(card.outcomes, "up")
        downIndex == FindIndex(card.outcomes, "down")
        selectedIndex == IF card.betSide = "UP" THEN upIndex ELSE downIndex
        picked == ElementAt(card.outcomePrices, selectedIndex)
        selectedPrice == IF Nullish(picked) THEN 50000 ELSE picked.n
        parsed == ParseFloatSigned(card.betAmount)
        usdAmount == IF parsed.nan \/ parsed.v = 0 THEN 0 ELSE parsed.v
        tokenId == ElementAt(card.clobTokenIds, selectedIndex)
    IN  IF ~hasTokenIds \/ usdAmount <= 0 THEN <<>>
        ELSE IF ~Truthy(tokenId) THEN <<>>
        ELSE <<BetParams(tokenId, JsNumber(selectedPrice),
                         JsNumber(RoundedShares(usdAmount, selectedPrice)),
                         JsString("BUY"))>>

\* A call of the exchange client; an order carries its token, price, size
\* and side.
ExchangeCall(method, order) == [method |-> method, order |-> order]

\* What placePolymarketBet did: the calls that reached the exchange and
\* whether it returned or threw.
BetRun(calls, ok, message) == [calls |-> calls, ok |-> ok, message |-> message]

\* How far the exchange lets a bet go: the wallet rejects the key, one of
\* the three calls fails, or the order is accepted.
ExchangeOutcomes ==
    {"walletFails", "deriveFails", "marketFails", "orderFails", "ok"}

\* placePolymarketBet(params) when process.env.PRIVATE_KEY is privateKey
placePolymarketBet(params, privateKey, exchange) ==
    LET derive == ExchangeCall("createOrDeriveApiKey", NoRequest)
        market == ExchangeCall("getMarket",
                               BetParams(params.tokenId, JsUndefined,
                                         JsUndefined, JsUndefined))
        sideEnum == IF params.side = JsString("BUY")
                    THEN JsString("BUY") ELSE JsString("SELL")
        order == ExchangeCall("createAndPostOrder",
                              BetParams(params.tokenId, params.price,
                                        params.size, sideEnum))
    IN  IF ~Truthy(privateKey)
        THEN BetRun(<<>>, FALSE, "Missing PRIVATE_KEY in environment")
        ELSE CASE exchange = "walletFails" ->
                    BetRun(<<>>, FALSE, "invalid private key")
               [] exchange = "deriveFails" ->
                    BetRun(<<derive>>, FALSE, "exchange")
               [] exchange = "marketFails" ->
                    BetRun(<<derive, market>>, FALSE, "exchange")
               [] exchange = "orderFails" ->
                    BetRun(<<derive, market, order>>, FALSE, "exchange")
               [] OTHER -> BetRun(<<derive, market, order>>, TRUE, "")

\* A check of the token id alone.
BetRejected_TokenOnly(tokenId, price, size) == ~Truthy(tokenId)

\* !tokenId || price == null || size == null
BetRejected(tokenId, price, size) ==
    ~Truthy(tokenId) \/ Nullish(price) \/ Nullish(size)

\* side ?? 'BUY'
SideOrBuy(side) == IF Nullish(side) THEN JsString("BUY") ELSE side

\* The answer of the route: its status and its error (or success: true).
BetResponse(status, success, error) ==
    [status |-> status, success |-> success, error |-> error]
NoBetResponse == BetResponse(0, FALSE, "")

\* The route POST /api/place-bet: the answer, the calls of
\* placePolymarketBet and the calls that reached the exchange.
PlaceBetRoute(body, privateKey, exchange) ==
    IF BetRejected(body.tokenId, body.price, body.size)
    THEN [response |->
              BetResponse(400, FALSE,
                          "Missing required fields: tokenId, price, size"),
          clientCalls |-> <<>>, exchange |-> <<>>]
    ELSE LET params == BetParams(body.tokenId, body.price, body.size,
                                 SideOrBuy(body.side))
             run == placePolymarketBet(params, privateKey, exchange)
         IN  [response |-> IF run.ok THEN BetResponse(HttpOk, TRUE, "")
                           ELSE BetResponse(500, FALSE, run.message),
              clientCalls |-> <<params>>, exchange |-> run.calls]

\* The cards: markets with and without Up/Down outcomes and token ids.
CardMarkets ==
    {[outcomes |-> <<"Up", "Down">>, ids |-> <<"tok-up", "tok-down">>],
     [outcomes |-> <<"Down", "Up">>, ids |-> <<"tok-down", "tok-up">>],
     [outcomes |-> <<"Up", "Down">>, ids |-> <<"tok-up", "">>],
     [outcomes |-> <<"Up", "Down">>, ids |-> <<"tok-up">>],
     [outcomes |-> <<"Up", "Down">>, ids |-> <<>>],
     [outcomes |-> <<"Yes", "No">>, ids |-> <<"tok-yes", "tok-no">>],
     [outcomes |-> <<"Up">>, ids |-> <<"tok-up", "tok-down">>]}
CardPrices == {<<52000, 48000>>, <<0, 100000>>, <<>>}
AmountInputs == {"", "0", "-3", "bad", "0.7", "10"}
BetCards ==
    {BetCard(m.outcomes, [i \in 1..Len(p) |-> JsNumber(p[i])],
             [i \in 1..Len(m.ids) |-> JsString(m.ids[i])], side, amount) :
        m \in CardMarkets, p \in CardPrices, side \in {"UP", "DOWN"},
        amount \in AmountInputs}

\* The bodies any client may post.
TokenIdInputs ==
    {JsUndefined, JsNull, JsString(""), JsString("tok-up"), JsNumber(0),
     JsNumber(7)}
BetPriceInputs ==
    {JsUndefined, JsNull, JsNumber(0), JsNumber(55000), JsString("bad")}
BetSizeInputs == {JsUndefined, JsNull, JsNumber(0), JsNumber(1000000)}
SideInputs ==
    {JsUndefined, JsNull, JsString("BUY"), JsString("SELL"), JsString("x")}
BetBodies ==
    {BetParams(tokenId, price, size, side) :
        tokenId \in TokenIdInputs, price \in BetPriceInputs,
        size \in BetSizeInputs, side \in SideInputs}
KeyInputs == {JsUndefined, JsString(""), JsString("x")}

InitBet ==
    /\ xPc = "idle"
    /\ xFrom = ""
    /\ xCard = NoCard
    /\ xRequest = NoRequest
    /\ xKey = JsUndefined
    /\ xClientCalls = <<>>
    /\ xExchange = <<>>
    /\ xResponse = NoBetResponse

\* The button of a card is clicked: handlePlaceBet runs, and the request of
\* the mutation it starts is on its way.
PlaceBetClicked ==
    /\ xPc = "idle"
    /\ \E card \in BetCards :
        LET sent == handlePlaceBet(card)
        IN  /\ xCard' = card
            /\ xFrom' = "card"
            /\ xRequest' = IF sent = <<>> THEN NoRequest ELSE sent[1]
            /\ xPc' = IF sent = <<>> THEN "idle" ELSE "sent"
    /\ UNCHANGED <<xKey, xClientCalls, xExchange, xResponse>>
    /\ UNCHANGED notBetVars

\* Any client posts a body to the route.
PlaceBetPosted ==
    /\ xPc = "idle"
    /\ \E body \in BetBodies : xRequest' = body
    /\ xFrom' = "http"
    /\ xCard' = NoCard
    /\ xPc' = "sent"
    /\ UNCHANGED <<xKey, xClientCalls, xExchange, xResponse>>
    /\ UNCHANGED notBetVars

\* The route handles the request.
PlaceBetHandled ==
    /\ xPc = "sent"
    /\ \E privateKey \in KeyInputs, exchange \in ExchangeOutcomes :
        LET handled == PlaceBetRoute(xRequest, privateKey, exchange)
        IN  /\ xKey' = privateKey
            /\ xClientCalls' = handled.clientCalls
            /\ xExchange' = handled.exchange
            /\ xResponse' = handled.response
    /\ xPc' = "answered"
    /\ UNCHANGED <<xFrom, xCard, xRequest>>
    /\ UNCHANGED notBetVars

NextBet == PlaceBetClicked \/ PlaceBetPosted \/ PlaceBetHandled

----------------------------------------------------------------------------

InitOthers ==
    /\ InitDecide /\ InitRetry /\ InitGateway /\ InitMarketData /\ InitSlug
    /\ InitRegistry /\ InitHistory /\ InitClock /\ InitBundle /\ InitRound
    /\ InitWindow /\ InitApp /\ InitBet

InitComponents == InitOthers /\ InitAsset(0)

Init ==
    /\ InitComponents
    /\ InitPipeline([i \in Requests |-> "absent"], FALSE, 0, FALSE)

\* One request; the provider is down, healthy, or fails a few calls.
InitPredict ==
    /\ InitComponents
    /\ \E outage \in BOOLEAN :
         \E faults \in 0..MaxFaultyCalls :
            /\ outage => faults = 0
            /\ InitPipeline([i \in Requests |->
                                IF i = 1 THEN "idle" ELSE "absent"],
                            outage, faults, FALSE)

\* Two requests in flight at once against a healthy provider.
InitOverlap ==
    /\ InitComponents
    /\ InitPipeline([i \in Requests |-> "idle"], FALSE, 0, TRUE)

SpecDecide == Init /\ [][NextDecide]_vars

SpecRetry == Init /\ [][NextRetry]_vars

SpecGateway == Init /\ [][NextGateway]_vars

SpecMarketData == Init /\ [][NextMarketData]_vars

SpecSlug == Init /\ [][NextSlug]_vars

SpecRegistry == Init /\ [][NextRegistry]_vars

SpecPredict == InitPredict /\ [][NextPredict]_vars

\* Every request sent gets its answer (or times out) and every timer fires.
PredictFairness ==
    /\ WF_vars(IntradayIteration)
    /\ WF_vars(LongTermIteration)
    /\ WF_vars(PriceSettles)
    /\ WF_vars(GatherCompletes)
    /\ WF_vars(SnapshotSettles)
    /\ WF_vars(LlmSettles)
    /\ WF_vars(CreateSettles)

SpecPredictLive == InitPredict /\ [][NextPredict]_vars /\ PredictFairness

SpecOverlap == InitOverlap /\ [][NextPredict]_vars

\* One fetchAssetMarketData against a provider that fails some requests.
InitAssetRun ==
    /\ InitOthers
    /\ InitPipeline([i \in Requests |-> "absent"], FALSE, 0, FALSE)
    /\ \E faults \in 0..MaxFailedRequests : InitAsset(faults)

SpecAsset == InitAssetRun /\ [][NextAsset]_vars

\* Two predict requests and any number of reads of the history.
SpecLog == InitOverlap /\ [][NextLog]_vars

\* One predict, invoked at some instant of a window.
SpecClock == Init /\ [][NextClock]_vars

\* One gather of the intraday bundle against any provider.
SpecBundle == Init /\ [][NextBundle]_vars

\* One value rounded once and once more.
SpecRound == Init /\ [][NextRound]_vars

\* One clock value, taken by the frontend and by predict.
SpecWindow == Init /\ [][NextWindow]_vars

\* The App under any sequence of clicks, timer ticks and answers.
SpecApp == Init /\ [][NextApp]_vars

\* Every request the browser sent is answered or fails.
SpecAppLive == Init /\ [][NextApp]_vars /\ WF_vars(MutationSettles)

\* One bet, from a card or from any client, and its handling.
SpecBet == Init /\ [][NextBet]_vars

----------------------------------------------------------------------------
(* Properties of the Decision Engine (checked under SpecDecide).           *)

Settled == dPc \in {"returned", "thrown"}

\* The POST resolved with status 200.
TransportOk == dHttp.kind = "response" /\ dHttp.status = HttpOk

\* The reply's first choice and its message, where the body has them.
HasFirstChoice ==
    /\ dHttp.data.v.t = "object"
    /\ dHttp.data.hasChoices
    /\ Len(dHttp.data.choices) > 0
ReplyChoice == dHttp.data.choices[1]
ReplyMessage == ReplyChoice.message

\* parseUpDownResponse ran on a reply whose content is the JSON text of
\* ReplyJson (and the transport gave no parsed field).
ParsedContent ==
    /\ Settled
    /\ dParses = 1
    /\ ~ReplyMessage.hasParsed
    /\ ReplyMessage.content.v.s # ""
    /\ ReplyMessage.content.text.wellFormed
ReplyJson == ReplyMessage.content.text.val
ReplyDecision == ReplyJson.decision

\* The reply holds a decision that is a JSON object.
HasDecisionObject ==
    /\ ParsedContent
    /\ ReplyJson.v.t = "object"
    /\ ReplyDecision.v.t = "object"

\* C1: whenever the parsed reply has no decision field, or its decision is
\* not a JSON object (null, a string, a number, a boolean or an array),
\* parseUpDownResponse raises and no decision object is returned.
C1_RaisesWithoutDecisionObject ==
    (ParsedContent /\ ~HasDecisionObject) => (dPc = "thrown" /\ dOut = NoOutput)

Directions == {JsString("UP"), JsString("DOWN"), JsString("NO_BET")}

\* C2: the direction of every returned Decision is UP, DOWN or NO_BET.
C2_DirectionInEnum ==
    dPc = "returned" => dOut.decision.direction \in Directions

\* C3: every returned Decision has size_usd >= 0, max_loss_usd >= 0 and
\* 0 <= edge_prob <= 1 (10 tenths).
C3_AmountsInRange ==
    dPc = "returned" =>
        /\ dOut.decision.size_usd >= 0
        /\ dOut.decision.max_loss_usd >= 0
        /\ dOut.decision.edge_prob >= 0
        /\ dOut.decision.edge_prob <= 10

\* C4: the market_slug of every returned Decision is the slug of the market
\* snapshot the decision was requested for.
C4_SlugIsRequested ==
    dPc = "returned" => dOut.decision.market_slug = dMarketSlug

\* The number a reply's field denotes when it is a number or a numeric
\* string, and d when it is missing or not numeric.
Denoted(v, d) ==
    IF v.t = "number" THEN v.n
    ELSE IF v = JsString("10") THEN 100
    ELSE IF v = JsString("0.7") THEN 7
    ELSE IF v = JsString("-3") THEN -30
    ELSE d

\* C5: with a decision object in the reply, parseUpDownResponse returns, and
\* each of size_usd, max_loss_usd and edge_prob is the number the reply gave
\* (as a number or a numeric string), or 0, 0 and 0.5 when it is missing or
\* not numeric; a missing reasoning becomes the empty string.
C5_CoercesEachField ==
    HasDecisionObject =>
        /\ dPc = "returned"
        /\ dOut.decision.size_usd = Denoted(ReplyDecision.f["size_usd"], 0)
        /\ dOut.decision.max_loss_usd = Denoted(ReplyDecision.f["max_loss_usd"], 0)
        /\ dOut.decision.edge_prob = Denoted(ReplyDecision.f["edge_prob"], 5)
        /\ (ReplyJson.reasoning = JsUndefined => dOut.reasoning = JsString(""))

\* The POST failed: no response, a status outside 2xx, or a 2xx status that
\* is not 200.
TransportFailed == Settled /\ ~TransportOk
TransportErrors == {NetworkError, StatusError, LLMApiError}

\* C6: one invocation issues exactly one POST; when it fails, that failure
\* is what decideUpDown throws, with no second POST, no parse and no decision.
C6_OnePostFailFast ==
    /\ dPosts = (IF dPc = "idle" THEN 0 ELSE 1)
    /\ TransportFailed =>
          /\ dPc = "thrown"
          /\ dError = (IF dHttp.kind = "response" THEN LLMApiError
                       ELSE dHttp.error)
          /\ dParses = 0
          /\ dOut = NoOutput

C6_Witness ==
    /\ dPc = "thrown"
    /\ dHttp.kind = "networkError"
    /\ dError = NetworkError
    /\ dPosts = 1

\* The reply has no first choice, no message in it, or a content that is
\* not a string.
MalformedShape ==
    \/ ~HasFirstChoice
    \/ ReplyChoice.v.t # "object"
    \/ ~ReplyChoice.hasMessage
    \/ ReplyMessage.content.v.t # "string"

\* C7: when the POST succeeds and the reply has no first choice, no message
\* or a non-string content, decideUpDown throws a structural error, never a
\* transport error, before any parse and returns no decision.
C7_StructuralError ==
    (Settled /\ TransportOk /\ MalformedShape) =>
        /\ dPc = "thrown"
        /\ dError \notin TransportErrors
        /\ dError = (IF dHttp.data.v.t = "null" THEN PropertyTypeError
                     ELSE InvalidResponseError)
        /\ dParses = 0
        /\ dOut = NoOutput

C7_Witness ==
    /\ dPc = "thrown"
    /\ TransportOk
    /\ HasFirstChoice
    /\ ReplyChoice.hasMessage
    /\ ReplyMessage.content.v.t = "number"
    /\ dError = InvalidResponseError

----------------------------------------------------------------------------
(* Properties of retry (checked under SpecRetry).                          *)

EventsOf(ev) == {i \in 1..Len(rLog) : rLog[i].ev = ev}
NumCalls == Cardinality(EventsOf("call"))

\* C8: for maxAttempts >= 1, fn is invoked at most maxAttempts times, the
\* n-th invocation is attempt n and follows the failure of attempt n - 1,
\* and the first success ends the run with its value returned.
C8_AttemptsBoundedStopAtSuccess ==
    rMaxAttempts >= 1 =>
        /\ NumCalls <= rMaxAttempts
        /\ \A i \in EventsOf("call") :
              /\ rLog[i].k = Cardinality({j \in EventsOf("call") : j <= i})
              /\ rLog[i].k > 1 =>
                    \E j \in EventsOf("fail") :
                        /\ j < i
                        /\ rLog[j].k = rLog[i].k - 1
                        /\ \A c \in EventsOf("call") : ~(j < c /\ c < i)
        /\ \A i \in EventsOf("ok") :
              /\ i = Len(rLog)
              /\ rLog[i - 1] = CallEvent(rLog[i].k)
              /\ rPc = "returned"
              /\ rResult = rLog[i].x
        /\ rPc = "returned" => rLog # <<>> /\ rLog[Len(rLog)].ev = "ok"

C8_Witness ==
    /\ rPc = "returned"
    /\ rMaxAttempts = 3
    /\ NumCalls = 3
    /\ Cardinality(EventsOf("fail")) = 2
    /\ rResult = Outcome("value", "v1")

\* C9: after the k-th failed attempt, for k < maxAttempts, retry waits
\* backoffBase * 2^(k-1) and only then starts attempt k + 1; it waits neither
\* after the last failed attempt nor after a success.
C9_ExponentialBackoff ==
    /\ \A i \in EventsOf("fail") :
          IF rLog[i].k < rMaxAttempts
          THEN /\ i < Len(rLog)
               /\ rLog[i + 1] =
                    DelayEvent(rLog[i].k, rBackoffBase * 2^(rLog[i].k - 1))
          ELSE i = Len(rLog)
    /\ \A i \in EventsOf("delay") : rLog[i - 1].ev = "fail"
    /\ \A i \in EventsOf("ok") : i = Len(rLog)
    /\ \A i \in EventsOf("call") :
          rLog[i].k > 1 =>
              /\ rLog[i - 1] = WakeEvent(rLog[i].k - 1)
              /\ rLog[i - 2].ev = "delay"
    /\ \A i \in EventsOf("wake") : rLog[i - 1].ev = "delay"

C9_Witness ==
    /\ rBackoffBase = DefaultBackoffBase
    /\ rMaxAttempts = DefaultMaxAttempts
    /\ rPc = "thrown"
    /\ [i \in 1..Len(rLog) |-> rLog[i].ms] = <<0, 0, 500, 0, 0, 0, 1000, 0, 0, 0>>

\* C10: when all maxAttempts attempts fail, retry throws the error of the
\* last attempt.
C10_ThrowsLastError ==
    (rPc = "thrown" /\ rMaxAttempts >= 1) =>
        /\ NumCalls = rMaxAttempts
        /\ Cardinality(EventsOf("fail")) = rMaxAttempts
        /\ rLog[Len(rLog)].ev = "fail"
        /\ rLog[Len(rLog)].k = rMaxAttempts
        /\ rResult = rLog[Len(rLog)].x

C10_Witness ==
    /\ rPc = "thrown"
    /\ rMaxAttempts = 2
    /\ rLog[2].x = Outcome("error", "e1")
    /\ rLog[Len(rLog)].x = Outcome("error", "e2")
    /\ rResult = Outcome("error", "e2")

----------------------------------------------------------------------------
(* Properties of the indicator gateway (checked under SpecGateway).        *)

GatewayDone == gPc = "returned"

\* The request failed on the wire: network error, timeout or error status
\* (axios rejects on each), on all the attempts retry made.
UpstreamRejected == rPc = "thrown"

\* The body is not a JSON object.
MalformedBody == gData.v.t # "object"

\* The field to read is absent, or not of the kind the method reads.
FieldUnusable ==
    \/ gMethod = "fetchValue"
       /\ (Field(gData, gKey).isArray \/ Field(gData, gKey).v.t # "number")
    \/ gMethod = "fetchSeries" /\ ~Field(gData, gKey).isArray

UpstreamFailure == UpstreamRejected \/ MalformedBody \/ FieldUnusable

NeutralValue(method) ==
    CASE method = "fetchValue" -> GwReturn(Scalar(JsNull), NoGwBody)
      [] method = "fetchSeries" -> GwReturn(ArrayOf(<<>>), NoGwBody)
      [] method = "getHistoricalData" -> GwReturn(Missing, EmptyObjectBody)

\* C11: a gateway method never raises, and for every failure of the
\* upstream call (rejected request, missing field, non-numeric or malformed
\* body) fetchValue returns null, fetchSeries an empty array and
\* getHistoricalData an empty object.
C11_NeutralOnEveryFailure ==
    GatewayDone =>
        /\ ~gResult.raised
        /\ UpstreamFailure => gResult = NeutralValue(gMethod)

\* C12: a gateway call issues at most three requests; it gives up on a
\* rejected request only after three consecutive rejections with the two
\* backoff waits between them, and the first request that succeeds is the
\* last one issued.
C12_ThreeRequestsThenNeutral ==
    /\ NumCalls <= 3
    /\ (GatewayDone /\ UpstreamRejected) =>
          /\ [i \in 1..Len(rLog) |-> rLog[i].ev] =
                <<"call", "fail", "delay", "wake", "call", "fail", "delay",
                  "wake", "call", "fail">>
          /\ gResult = NeutralValue(gMethod)
    /\ (GatewayDone /\ NumCalls < 3) => rPc = "returned"
    /\ \A i \in EventsOf("ok") : i = Len(rLog)
    /\ \A i \in EventsOf("call") :
          rLog[i].k > 1 => rLog[i - 1] = WakeEvent(rLog[i].k - 1)

C12_Witness ==
    /\ GatewayDone
    /\ UpstreamRejected
    /\ NumCalls = 3
    /\ gMethod = "fetchSeries"
    /\ gResult = NeutralValue("fetchSeries")

----------------------------------------------------------------------------
(* Properties of getCurrentMarketData (checked under SpecMarketData).      *)

\* C13: getCurrentMarketData never raises; when the gather of the asset
\* raised, the error is caught, logged if and only if a logger was given,
\* and the returned list has no entry; when the gather succeeded the list
\* holds exactly one MarketSection, the one gathered for the asset.
C13_OmitsAssetWhoseGatherRaised ==
    mPc = "returned" =>
        /\ ~mResult.raised
        /\ IF mGathered.raised
           THEN /\ mResult.sections = <<>>
                /\ mLogged =
                     (IF mOptions.hasLogger
                      THEN <<"Data gather error " \o mOptions.asset \o ": "
                             \o mGathered.message>>
                      ELSE <<>>)
           ELSE /\ mResult.sections = <<mGathered.section>>
                /\ mGathered.section.asset = mOptions.asset
                /\ mLogged = <<>>

C13_Witness ==
    /\ mPc = "returned"
    /\ mGathered.raised
    /\ mOptions.hasLogger
    /\ mResult.sections = <<>>
    /\ mLogged = <<"Data gather error ETH: boom">>

----------------------------------------------------------------------------
(* Properties of the market slug (checked under SpecSlug).                 *)

SameBucket(t) == sWindowStart <= t /\ t < sWindowStart + 900
AdjacentBucket(t) ==
    \/ sWindowStart + 900 <= t /\ t < sWindowStart + 1800
    \/ sWindowStart - 900 <= t /\ t < sWindowStart

\* C14: the window start is a multiple of 900 with
\* windowStart <= nowSec < windowStart + 900; every clock value of the same
\* 900-second bucket gives the identical slug
\* <asset lowercased>-updown-15m-<windowStart>, and every clock value of an
\* adjacent bucket a different one (BTC at 1770690605 and 1770690899 gives
\* btc-updown-15m-1770690600, at 1770690900 btc-updown-15m-1770690900).
C14_WindowSlug ==
    sPc = "done" =>
        /\ sWindowStart % 900 = 0
        /\ sWindowStart <= sNow /\ sNow < sWindowStart + 900
        /\ sSlug = ToLowerCase(sSymbol) \o "-updown-15m-"
                   \o NatToString(sWindowStart)
        /\ sSymbol \in {"BTC", "btc", "Btc"} =>
              \E digits \in {NatToString(sWindowStart)} :
                  sSlug = "btc-updown-15m-" \o digits
        /\ \A t \in ClockInputs :
              /\ SameBucket(t) => ComputedSlug(sSymbol, t) = sSlug
              /\ AdjacentBucket(t) => ComputedSlug(sSymbol, t) # sSlug
        /\ (sSymbol = "BTC" /\ sNow \in {1770690605, 1770690899}) =>
              sSlug = "btc-updown-15m-1770690600"
        /\ (sSymbol = "BTC" /\ sNow = 1770690900) =>
              sSlug = "btc-updown-15m-1770690900"

C14_Witness ==
    /\ sPc = "done"
    /\ sSymbol = "BTC"
    /\ sNow = 1770690899
    /\ sSlug = "btc-updown-15m-1770690600"

----------------------------------------------------------------------------
(* Properties of the pipeline (checked under SpecPredict unless said       *)
(* otherwise).                                                             *)

\* Request i is past the point where its GET of the registry settled.
LookupSettled(i) == hPc[i] \in {"awaitLLM", "awaitCreate", "responded"}
                    /\ nSnapshotGets[i] > 0

\* The lookup of request i came back without a market.
NoMarketFound(i) ==
    LookupSettled(i) /\ pMarkets[i].ok /\ Len(pMarkets[i].markets) = 0

\* C15: when the lookup of the computed slug yields no market, the run has
\* ended with the error "No Polymarket market found for slug: <slug>"
\* handed to the caller after exactly one GET of the registry, without a
\* POST to the LLM and without a row in the table.
C15_NoMarketEndsRun ==
    \A i \in Requests :
        NoMarketFound(i) =>
            /\ hPc[i] = "responded"
            /\ hResponse[i] = ServerError(NoMarketError(pSlug[i]))
            /\ nSnapshotGets[i] = 1
            /\ nLlmPosts[i] = 0
            /\ dbRows = <<>>

C15_Witness ==
    /\ NoMarketFound(1)
    /\ hPc[1] = "responded"
    /\ pSlug[1] = "eth-updown-15m-1770690600"
    /\ hResponse[1].status = 500
    /\ hResponse[1].error
         = "No Polymarket market found for slug: eth-updown-15m-1770690600"

\* predict of request i has returned to the handler.
PredictReturned(i) ==
    \/ hPc[i] = "awaitCreate"
    \/ hPc[i] = "responded" /\ pResult[i] # NoOutput

\* The direction the reply of the LLM spells, for a reply whose content is
\* the JSON text of an object with a decision object.
ReplyDirection(h) ==
    h.data.choices[1].message.content.text.val.decision.f["direction"]

DecisionAnswered(i) ==
    /\ hPc[i] = "responded"
    /\ hResponse[i].status = 200

\* The row the answer to request i was built from is in the table.
RowPersisted(i) ==
    \E k \in 1..Len(dbRows) :
        /\ dbRows[k].id = hResponse[i].body.id
        /\ toHistoryResponse(dbRows[k]) = hResponse[i].body

\* C17 as stated: a request whose predict run succeeded has created exactly
\* one row, and a request whose predict run failed none.
C17_OneRowPerSuccessfulPredict ==
    hPc[1] = "responded" =>
        Len(dbRows) = IF PredictReturned(1) THEN 1 ELSE 0

\* C17: a request creates exactly one row if predict succeeds and the
\* create is accepted, and none if predict or the create fails; the
\* decision is answered only once the row is in the table, and every other
\* answer is an error response without a decision or a row.
C17_RowIffDecisionAnswered ==
    /\ Len(dbRows) = IF DecisionAnswered(1) THEN 1 ELSE 0
    /\ DecisionAnswered(1) =>
          /\ PredictReturned(1)
          /\ RowPersisted(1)
          /\ hResponse[1].error = ""
          /\ hResponse[1].body.prediction.direction.s \in DirectionEnum
    /\ (hPc[1] = "responded" /\ ~DecisionAnswered(1)) =>
          /\ hResponse[1].status \in {400, 500}
          /\ hResponse[1].error # ""
          /\ hResponse[1].body = toHistoryResponse(NoRow)
    /\ hPc[1] # "responded" => hResponse[1] = NoResponse

\* The decision is answered from the row just created.
C17_Witness ==
    /\ DecisionAnswered(1)
    /\ RowPersisted(1)
    /\ Len(dbRows) = 1

----------------------------------------------------------------------------
(* Two requests for the same asset in flight at once (checked under        *)
(* SpecOverlap).                                                           *)

\* The lookup of request i found a market.
MarketFound(i) ==
    LookupSettled(i) /\ pMarkets[i].ok /\ Len(pMarkets[i].markets) > 0

\* C18: two overlapping requests for the same asset are neither merged nor
\* made to wait for one another: each run that finds its market sends its
\* own single POST to the LLM, the table holds one row per answered
\* decision, and when both are answered it holds two rows with different
\* ids, for the same market slug when the runs computed the same slug.
C18_NoDeduplication ==
    /\ \A i \in Requests :
          /\ ToUpperCase(hSymbol[i]) \in {"", "ETH"}
          /\ nSnapshotGets[i] <= 1
          /\ nLlmPosts[i] = IF MarketFound(i) THEN 1 ELSE 0
    /\ Len(dbRows) = Cardinality({i \in Requests : DecisionAnswered(i)})
    /\ (DecisionAnswered(1) /\ DecisionAnswered(2)) =>
          /\ Len(dbRows) = 2
          /\ dbRows[1].id # dbRows[2].id
          /\ RowPersisted(1) /\ RowPersisted(2)
          /\ hResponse[1].body.id # hResponse[2].body.id
          /\ pSlug[1] = pSlug[2] =>
                /\ dbRows[1].data.marketSlug = pSlug[1]
                /\ dbRows[2].data.marketSlug = pSlug[1]

\* The run that read the clock first got its row last: both decisions are
\* answered and the table holds two rows for one market slug.
C18_Witness ==
    /\ DecisionAnswered(1) /\ DecisionAnswered(2)
    /\ hResponse[2].body.id = 1
    /\ hResponse[1].body.id = 2
    /\ pNow[1] < pNow[2]
    /\ nLlmPosts[1] = 1 /\ nLlmPosts[2] = 1
    /\ Len(dbRows) = 2
    /\ dbRows[1].data.marketSlug = "eth-updown-15m-1770690600"
    /\ dbRows[2].data.marketSlug = "eth-updown-15m-1770690600"

----------------------------------------------------------------------------
(* Termination of a request (checked under SpecPredictLive).               *)

\* The gateway calls request i has completed.
CallsDone(i) ==
    (aIntraday[i].next - 1) + (aLongTerm[i].next - 1)
        + (IF aPrice[i].done THEN 1 ELSE 0)

\* Every call of the gateway costs between one and three requests.
CallCostBounded ==
    \A i \in Requests :
        /\ aRequests'[i] - aRequests[i] \in 0..3
        /\ aRequests'[i] # aRequests[i] =>
              /\ hPc[i] = "gathering"
              /\ CallsDone(i)' = CallsDone(i) + 1

\* C19: when requests complete and timers fire, a predict that has begun
\* comes to its end (the handler answers with the result or the error);
\* until then the gather has sent at most three requests per indicator
\* definition and three for the price, and every loop runs once per
\* definition.
C19_PredictTerminates ==
    /\ [][CallCostBounded]_vars
    /\ [](\A i \in Requests :
            /\ aRequests[i] <= 3 * CallsDone(i)
            /\ CallsDone(i) <= Len(aIntraday[i].defs)
                                 + Len(aLongTerm[i].defs) + 1
            /\ nSnapshotGets[i] <= 1
            /\ nLlmPosts[i] <= 1)
    /\ (hPc[1] = "gathering") ~> (hPc[1] = "responded")

\* The provider was down throughout: 33 requests for the ten definitions
\* and the price, and the request was still answered.
C19_Witness ==
    /\ hPc[1] = "responded"
    /\ taapiOutage
    /\ CallsDone(1) = 11
    /\ aRequests[1] = 33

----------------------------------------------------------------------------
(* Degraded market data (checked under SpecPredict).                       *)

\* getCurrentMarketData of request i has returned.
GatherDone(i) == nSnapshotGets[i] = 1

\* Every definition of the bundle whose request failed for good has a null
\* latest value, and an empty series where it asks for one.
Degraded(bundle) ==
    \A k \in 1..Len(bundle.failed) :
        bundle.failed[k] =>
            LET def == bundle.defs[k]
            IN  /\ GetEntry(bundle.acc.values, def.id, JsUndefined) = JsNull
                /\ IF DefMethod(def) = "fetchSeries"
                   THEN GetEntry(bundle.acc.series, def.id, <<JsNull>>) = <<>>
                   ELSE ~HasEntry(bundle.acc.series, def.id)

\* C20: failed indicator and price requests never end a predict: the
\* values they were to give are null and their series empty, a failed
\* price leaves current_price null, getCurrentMarketData still returns the
\* section of the asset, the run goes on to the registry and the LLM, and a
\* decision answered after a failed price has its row with a null current
\* price.
C20_DegradesToNull ==
    \A i \in Requests :
        /\ Degraded(aIntraday[i])
        /\ Degraded(aLongTerm[i])
        /\ aPrice[i].failed => aPrice[i].value = JsNull
        /\ GatherDone(i) =>
              /\ pMarketData[i]
                   = <<MarketSection(ToUpperCase(hSymbol[i]), aPrice[i].value,
                                     aIntraday[i].acc, aLongTerm[i].acc)>>
              /\ Len(aIntraday[i].acc.values) = Len(aIntraday[i].defs)
              /\ Len(aLongTerm[i].acc.values) = Len(aLongTerm[i].defs)
        /\ (hPc[i] = "responded" /\ hResponse[i].status = 500)
              => GatherDone(i)
        /\ MarketFound(i) => nLlmPosts[i] = 1
        /\ (DecisionAnswered(i) /\ aPrice[i].failed) =>
              /\ RowPersisted(i)
              /\ hResponse[i].body.current_price = JsNull
              /\ \A k \in 1..Len(dbRows) : dbRows[k].data.currentPrice = JsNull

\* The provider was down throughout and the decision was still answered,
\* from a row without a price.
C20_Witness ==
    /\ taapiOutage
    /\ DecisionAnswered(1)
    /\ aPrice[1].failed
    /\ \A k \in 1..4 : aIntraday[1].failed[k]
    /\ \A k \in 1..6 : aLongTerm[1].failed[k]
    /\ pMarketData[1][1].current_price = JsNull
    /\ pMarketData[1][1].intraday.values
         = <<<<"ema_20", JsNull>>, <<"macd", JsNull>>, <<"rsi_7", JsNull>>,
             <<"rsi_14", JsNull>>>>
    /\ pMarketData[1][1].intraday.series
         = <<<<"ema_20", <<>>>>, <<"macd", <<>>>>, <<"rsi_7", <<>>>>,
             <<"rsi_14", <<>>>>>>
    /\ dbRows[1].data.currentPrice = JsNull

----------------------------------------------------------------------------
(* Properties of the market registry lookup (checked under SpecRegistry).  *)

\* The outcome data of a market cannot be used: a field is missing or
\* empty, is not valid JSON, is not an array, or the arrays differ in length.
OutcomeDataUnusable(market) ==
    \/ ~market.outcomes.present \/ ~market.outcomePrices.present
    \/ ~market.outcomes.wellFormed \/ ~market.outcomePrices.wellFormed
    \/ ~market.outcomes.isArray \/ ~market.outcomePrices.isArray
    \/ Len(market.outcomes.items) # Len(market.outcomePrices.items)

\* The market has one price for each of its (one or more) outcome labels.
HasOutcomes(market) ==
    ~OutcomeDataUnusable(market) /\ Len(market.outcomes.items) > 0

\* The GET by slug was answered with an event.
EventReturned ==
    /\ fPc = "returned"
    /\ fRequest.kind = "eventBySlug"
    /\ ~fSettled.event.isNull

\* The markets of the answered event that have outcomes, in their order.
KeptMarkets == SelectSeq(fSettled.event.markets, HasOutcomes)

\* The price the source reads from one entry of outcomePrices.
PriceOf(text) == IF ParseFloat(text).nan THEN 0 ELSE ParseFloat(text).v

----------------------------------------------------------------------------
(* The malformed reply (checked under SpecDecide).                         *)

\* The POST succeeded and the content of the reply is a non-empty string
\* that is not JSON (the transport gave no parsed object to use instead).
MalformedContent ==
    /\ Settled /\ TransportOk /\ ~MalformedShape
    /\ ~(/\ ReplyMessage.hasParsed
         /\ Truthy(ReplyMessage.parsed.v)
         /\ TypeofObject(ReplyMessage.parsed.v))
    /\ Truthy(ReplyMessage.content.v)
    /\ ~ReplyMessage.content.text.wellFormed

\* C22: a reply whose content cannot be parsed as JSON makes the Decision
\* Engine invoke the LLM again (a second POST, with the stricter
\* instruction) instead of failing on the first malformed reply.
C22_RetriesMalformedReply ==
    MalformedContent => dPosts >= 2

\* The caller named a slug.
SlugGiven == fOptions.hasSlug /\ fOptions.slug # ""

\* C23: with a slug the GET is the one of that event and every market of the
\* event that has outcomes is returned, whatever the title; with no slug the
\* GET lists the active events and every returned market is of an event
\* whose title contains the search substring (letter case set aside).
C23_SlugOrTitleSearch ==
    fPc # "idle" =>
        /\ SlugGiven =>
              /\ fRequest = RegistryGet("eventBySlug", fOptions.slug)
              /\ EventReturned => Len(fResult.markets) = Len(KeptMarkets)
        /\ ~SlugGiven =>
              /\ fRequest = RegistryGet("eventList", "")
              /\ fPc = "returned" =>
                    \A k \in 1..Len(fResult.markets) :
                        Includes(LowerChars(fResult.markets[k].slug),
                                 LowerChars(SearchTitleOf(fOptions)))

----------------------------------------------------------------------------
(* The indicator selection of getCurrentMarketData (checked under          *)
(* SpecMarketData).                                                        *)

IdsOf(defs) == [i \in 1..Len(defs) |-> defs[i].id]
InCatalog(id) ==
    \E k \in 1..Len(AVAILABLE_INDICATORS) : AVAILABLE_INDICATORS[k].id = id

\* The caller selected nothing: the list is undefined or empty.
NoneSelected(idList) == ~idList.hasIds \/ idList.ids = <<>>

\* The definitions a timeframe must get: those of the named default ids when
\* nothing is selected, else those of the caller's ids found in the catalog.
SelectionHonoured(idList, defs, defaultIds) ==
    /\ NoneSelected(idList) => IdsOf(defs) = defaultIds
    /\ ~NoneSelected(idList) => IdsOf(defs) = SelectSeq(idList.ids, InCatalog)
    /\ \A i \in 1..Len(defs) :
          \E k \in 1..Len(AVAILABLE_INDICATORS) : defs[i] = AVAILABLE_INDICATORS[k]

\* C24: each timeframe gets the definitions of its default ids (intraday:
\* ema_20, macd, rsi_7, rsi_14; long-term: ema_20, ema_50, atr_3, atr_14,
\* macd, rsi_14), every one a catalog entry, when its id list is undefined
\* or empty, and the definitions of the caller's ids otherwise; the two
\* timeframes are resolved independently of each other.
C24_DefaultIndicatorSets ==
    mPc # "idle" =>
        /\ SelectionHonoured(mOptions.intradayIndicatorIds, mDefs.intraday,
                             <<"ema_20", "macd", "rsi_7", "rsi_14">>)
        /\ SelectionHonoured(mOptions.longTermIndicatorIds, mDefs.longTerm,
                             <<"ema_20", "ema_50", "atr_3", "atr_14", "macd",
                               "rsi_14">>)

\* An empty intraday list and a long-term selection of one indicator.
C24_Witness ==
    /\ mPc = "gathering"
    /\ mOptions.intradayIndicatorIds = IdList(TRUE, <<>>)
    /\ mOptions.longTermIndicatorIds = IdList(TRUE, <<"rsi_7">>)
    /\ Len(mDefs.intraday) = 4
    /\ mDefs.intraday[2] = Def("macd", "macd", "valueMACD", TRUE, <<>>)
    /\ IdsOf(mDefs.longTerm) = <<"rsi_7">>

----------------------------------------------------------------------------
(* The predictions table under both handlers (checked under SpecLog).      *)

\* C25: whatever GET /api/predict and GET /api/predictions requests are
\* served, in whatever order, every step leaves each record of the table in
\* place and unchanged: the table only grows, at its end.
C25_AppendOnlyLog ==
    [][/\ Len(dbRows') >= Len(dbRows)
       /\ SubSeq(dbRows', 1, Len(dbRows)) = dbRows]_vars

\* Two records were written and a read of the history, served after them,
\* listed both, the newer one first.
C25_Witness ==
    /\ Len(dbRows) = 2
    /\ qPc = "responded"
    /\ qResponse.status = 200
    /\ Len(qResponse.body) = 2
    /\ qResponse.body[1] = toHistoryResponse(dbRows[2])
    /\ qResponse.body[2] = toHistoryResponse(dbRows[1])

----------------------------------------------------------------------------
(* Properties of fetchAssetMarketData and its gathers (checked under       *)
(* SpecAsset).                                                             *)

\* Positions of the GETs in a log, and the GETs and settlements before a
\* position.
Gets(log) == {p \in 1..Len(log) : log[p].ev = "get"}
SentBefore(log, p) == Cardinality({q \in 1..(p - 1) : log[q].ev = "get"})
SettledBefore(log, p) ==
    Cardinality({q \in 1..(p - 1) : log[q].ev = "settled"})
InFlight(log) ==
    SentBefore(log, Len(log) + 1) - SettledBefore(log, Len(log) + 1)

\* The GET at position p opens the call for a definition: every GET before
\* it is for an earlier definition, the call before it is over (its last
\* GET succeeded or was the third attempt), and the step just before p is
\* the one-second delay elapsing.
OpensInOrder(log, p) ==
    /\ \A q \in Gets(log) : q < p => log[q].index < log[p].index
    /\ log[p].index = 1 + Cardinality({q \in Gets(log) :
                                          q < p /\ log[q].attempt = 1})
    /\ p > 2 => /\ log[p - 2].ev = "settled"
                /\ log[p - 2].ok \/ log[p - 2].attempt = 3
    /\ p > 1 /\ log[p - 1] = Elapsed(1000)

\* C26: in each gather the GETs go out in the order of the definitions, one
\* at a time: a GET is sent only when every earlier GET of the gather has
\* settled, and the first GET for a definition only after the call for the
\* definition before it is over, retries included, and a delay of one
\* second has then elapsed; at no time are two GETs of one gather in flight.
C26_OneRequestAtATimeInOrder ==
    \A b \in Bundles :
        /\ InFlight(bLog[b]) \in {0, 1}
        /\ \A p \in Gets(bLog[b]) :
              /\ SentBefore(bLog[b], p) = SettledBefore(bLog[b], p)
              /\ bLog[b][p].attempt = 1 => OpensInOrder(bLog[b], p)
              /\ bLog[b][p].attempt > 1 =>
                    /\ bLog[b][p - 2] = SettledStep(bLog[b][p].index,
                                                    bLog[b][p].attempt - 1,
                                                    FALSE)
                    /\ bLog[b][p - 1].ev = "elapsed"

\* The call for the first intraday definition needed two GETs; the GET for
\* the second definition has been sent.
C26_Witness ==
    bLog["intraday"] = <<Elapsed(1000), Sent(1, 1), SettledStep(1, 1, FALSE),
                         Elapsed(500), Sent(1, 2), SettledStep(1, 2, TRUE),
                         Elapsed(1000), Sent(2, 1)>>

\* The output ids a gather fills for its definitions.
OutputIds(defs) ==
    UNION {IF Len(defs[k].multiValueKeys) # 0
           THEN {defs[k].multiValueKeys[j].outputId :
                    j \in 1..Len(defs[k].multiValueKeys)}
           ELSE {defs[k].id} : k \in 1..Len(defs)}
KeysOf(record) == {record[i][1] : i \in 1..Len(record)}

\* A task that waits (for its delay, its GET or its backoff) can take its
\* next step now.
TaskCanStep(t) ==
    ENABLED (\/ (t \in Bundles /\ LoopDelayElapsesOf(t))
             \/ GetSettlesOf(t)
             \/ BackoffElapsesOf(t))

\* C27: once fetchAssetMarketData has been called all three tasks are
\* under way, and while it gathers every task that is not done can take
\* its next step whatever the other two are waiting for; the section is
\* returned only when all three are done with no GET in flight, and it
\* holds the price fetched and, for each gather, what that gather returned
\* with a value for every output id of its definitions.
C27_ConcurrentGatherCompleteSection ==
    /\ bPc = "gathering" =>
          \A t \in Tasks : /\ bPhase[t] # "idle"
                           /\ bPhase[t] # "done" => TaskCanStep(t)
    /\ bPc = "returned" =>
          /\ \A t \in Tasks : bPhase[t] = "done" /\ InFlight(bLog[t]) = 0
          /\ bSection.current_price = bPrice
          /\ bSection.intraday = bResult["intraday"]
          /\ bSection.long_term = bResult["longTerm"]
          /\ KeysOf(bSection.intraday.values) = OutputIds(bDefs["intraday"])
          /\ KeysOf(bSection.long_term.values) = OutputIds(bDefs["longTerm"])
    /\ bPc # "returned" => bSection = NoSection

\* The intraday gather has returned and the price is in while the
\* long-term gather still waits for its first delay: no section yet.
C27_Witness ==
    /\ bPc = "gathering"
    /\ bPhase["intraday"] = "done"
    /\ Len(bCalls["intraday"]) = 2
    /\ bPhase["price"] = "done"
    /\ bPhase["longTerm"] = "delay"
    /\ bLog["longTerm"] = <<>>
    /\ bSection = NoSection

\* fetchIndicatorsByDefs run on its own: the stores of its iterations, in
\* order, each on what its call got from the provider.
RECURSIVE GatherAloneFrom(_, _, _, _)
GatherAloneFrom(defs, calls, k, acc) ==
    IF k > Len(calls) THEN acc
    ELSE GatherAloneFrom(
             defs, calls, k + 1,
             StoreIndicator(acc, defs[k],
                            CallGateway(DefMethod(defs[k]), defs[k].valueKey,
                                        calls[k])))
GatherAlone(defs, calls) == GatherAloneFrom(defs, calls, 1, NoIndicators)

\* C28: however the steps of the two gathers and of the price fetch
\* interleave, what a gather returns is what the same gather gives when it
\* runs alone on the answers its own calls got, and its values and series
\* hold entries for output ids of its own definitions only.
C28_GathersDoNotInterfere ==
    \A b \in Bundles :
        (bPc # "idle" /\ bPhase[b] = "done") =>
            /\ bResult[b] = GatherAlone(bDefs[b], bCalls[b])
            /\ KeysOf(bResult[b].values) \subseteq OutputIds(bDefs[b])
            /\ KeysOf(bResult[b].series) \subseteq OutputIds(bDefs[b])

\* Both gathers asked for atr_3: the intraday one got no answer, the
\* long-term one did, and each returned its own value.
C28_Witness ==
    /\ bPc = "returned"
    /\ IdsOf(bDefs["intraday"]) = <<"atr_3">>
    /\ IdsOf(bDefs["longTerm"]) = <<"atr_3", "ema_20">>
    /\ bSection.intraday.values = <<<<"atr_3", JsNull>>>>
    /\ GetEntry(bSection.long_term.values, "atr_3", JsUndefined).t = "number"
    /\ KeysOf(bSection.long_term.series) = {"ema_20"}

----------------------------------------------------------------------------
(* The order of the steps of a predict run (checked under SpecPredict).    *)

\* The three fetches of the aggregation of request i are over and
\* getCurrentMarketData has returned.
AggregationDone(i) ==
    /\ BundleDone(aIntraday[i]) /\ BundleDone(aLongTerm[i]) /\ aPrice[i].done
    /\ hPc[i] \notin {"absent", "idle", "gathering"}

\* C29: in every predict run the POST to the LLM is sent only when the
\* aggregation is over and the lookup of the market has given a snapshot;
\* the content sent is the context built from the very marketData that
\* predict returns; predict returns only with the decision the Decision
\* Engine made of the reply received; and a record is in the table only
\* after predict has returned, holding that snapshot, marketData and
\* decision.
C29_StepsOfPredictInOrder ==
    \A i \in Requests :
        /\ nLlmPosts[i] > 0 =>
              /\ AggregationDone(i)
              /\ LookupSettled(i) /\ MarketFound(i)
              /\ pPosted[i] = buildUserContext(pMarketData[i],
                                               <<ToUpperCase(hSymbol[i])>>)
              /\ pPosted[i].market_data
                    = <<MarketSection(ToUpperCase(hSymbol[i]), aPrice[i].value,
                                      aIntraday[i].acc, aLongTerm[i].acc)>>
        /\ nLlmPosts[i] = 0 => pPosted[i] = NoContext /\ pReply[i] = NoHttp
        /\ PredictReturned(i) =>
              /\ nLlmPosts[i] = 1
              /\ pReply[i] # NoHttp
              /\ decideUpDown(pReply[i], pSnapshot[i].market_slug).ok
              /\ pResult[i]
                    = decideUpDown(pReply[i], pSnapshot[i].market_slug).out
        /\ ~PredictReturned(i) => pResult[i] = NoOutput
        /\ (i = 1 /\ Len(dbRows) > 0) =>
              /\ PredictReturned(i)
              /\ hPc[i] = "responded"
              /\ dbRows[1].data = CreateData(hSymbol[i], pSnapshot[i],
                                             pMarketData[i], pResult[i])

\* A run that went all the way: the context posted holds the section
\* gathered, the reply was UP, and the record was written after it.
C29_Witness ==
    /\ hPc[1] = "responded"
    /\ Len(dbRows) = 1
    /\ Len(pPosted[1].market_data) = 1
    /\ pPosted[1].market_data[1].current_price = JsNumber(6512350)
    /\ pPosted[1].instructions.assets = <<"ETH">>
    /\ pReply[1] = ReplyWith("UP", 100)
    /\ dbRows[1].data.direction = JsString("UP")

\* C30: predict sends the GET of the market snapshot together with the
\* start of the aggregation and does not wait for the indicator data: while
\* the aggregation of a run is still under way, the GET of its snapshot has
\* already been sent.
C30_SnapshotInParallel ==
    \A i \in Requests : hPc[i] = "gathering" => nSnapshotGets[i] >= 1

----------------------------------------------------------------------------
(* Properties of predict on the wall clock (checked under SpecClock).      *)

\* The start of the 15-minute window that holds the second sec.
WindowHolding(sec) ==
    CHOOSE w \in {sec - d : d \in 0..(FIFTEEN_MINUTES - 1)} :
        w % FIFTEEN_MINUTES = 0

\* C31: in every predict run the slug names the 15-minute window that
\* holds the instant at which the clock is read, and the clock is read
\* once the aggregation has completed: every task of the gather is done,
\* and the instant is not before the instant the last request for market
\* data was sent, which is not before the instant predict was invoked.
\* (That the window can differ from the one of the invocation or of the
\* requests is the case C31_Witness reaches.)
C31_SlugWindowIsReadAfterAggregation ==
    cPc = "lookup" =>
        LET windowStart == WindowHolding(cDone.sec)
        IN  /\ \A t \in Tasks : cPhase[t] = "done"
            /\ NotBefore(cDone, cFetched)
            /\ NotBefore(cFetched, cInvoked)
            /\ cNow = cDone.sec
            /\ windowStart <= cNow
            /\ cNow < windowStart + 900
            /\ cSlug = ToLowerCase(cSymbol) \o "-updown-15m-"
                       \o NatToString(windowStart)

\* predict was invoked and sent its last request for market data in one
\* window and looks up the market of the next.
C31_Witness ==
    /\ cPc = "lookup"
    /\ cInvoked.sec < ExampleWindow + 900
    /\ cFetched.sec < ExampleWindow + 900
    /\ cFetched.sec > cInvoked.sec
    /\ cNow >= ExampleWindow + 900
    /\ cSlug = "btc-updown-15m-1770691500"

----------------------------------------------------------------------------
(* Properties of one bundle gather (checked under SpecBundle).             *)

\* The calls the gather made for the definition at index k.
CallsFor(k) == {c \in 1..Len(kCalls) : kCalls[c].index = k}
\* No later definition of the gather writes the outputs of the one at k.
LastOfItsId(k) ==
    \A j \in (k + 1)..Len(kBundle.defs) :
        kBundle.defs[j].id # kBundle.defs[k].id

\* C32: in a gather that returned, for every multi-value definition the
\* gather made exactly one gateway call, a getHistoricalData; the result
\* has a series and a latest value for every named output of the
\* definition; when the call failed each of them is the empty series and
\* null, and when the body carries an array under the response key the
\* series has that many entries and the latest value is its last entry.
C32_MultiValueOneCallAllOutputs ==
    kPc = "returned" =>
        \A k \in 1..Len(kBundle.defs) :
            LET def == kBundle.defs[k]
            IN  Len(def.multiValueKeys) # 0 /\ LastOfItsId(k) =>
                  /\ Cardinality(CallsFor(k)) = 1
                  /\ \A c \in CallsFor(k) :
                        /\ kCalls[c].method = "getHistoricalData"
                        /\ \A i \in 1..Len(def.multiValueKeys) :
                            LET key == def.multiValueKeys[i]
                                run == kCalls[c].upstream.run
                                raw == Field(kCalls[c].upstream.body,
                                             key.responseKey)
                                series == GetEntry(kResult.series,
                                                   key.outputId, <<>>)
                                latest == GetEntry(kResult.values,
                                                   key.outputId, JsUndefined)
                            IN  /\ HasEntry(kResult.series, key.outputId)
                                /\ HasEntry(kResult.values, key.outputId)
                                /\ ~RunSucceeded(run) =>
                                      series = <<>> /\ latest = JsNull
                                /\ RunSucceeded(run) /\ raw.isArray =>
                                      /\ Len(series) = Len(raw.elems)
                                      /\ raw.elems # <<>> =>
                                            latest = series[Len(series)]

\* bbands was gathered from a body with the three bands, and the result has
\* bbands_upper, bbands_middle and bbands_lower.
C32_Witness ==
    /\ kPc = "returned"
    /\ \E c \in 1..Len(kCalls) :
        /\ kCalls[c].method = "getHistoricalData"
        /\ kBundle.defs[kCalls[c].index].id = "bbands"
        /\ DOMAIN kCalls[c].upstream.body.fields = BandKeys
    /\ \A id \in {"bbands_upper", "bbands_middle", "bbands_lower"} :
        /\ GetEntry(kResult.series, id, <<>>)
               = <<JsNumber(6512000), JsNumber(5000000)>>
        /\ GetEntry(kResult.values, id, JsUndefined) = JsNumber(5000000)

\* C33: in a bundle that was returned, for every output that has a series,
\* the latest value is the last element of the series when the series is
\* not empty and null when it is empty, whatever the upstream array holds.
C33_LatestIsLastOfSeries ==
    kPc = "returned" =>
        \A e \in 1..Len(kResult.series) :
            LET id == kResult.series[e][1]
                series == kResult.series[e][2]
                latest == GetEntry(kResult.values, id, JsUndefined)
            IN  latest = IF series = <<>> THEN JsNull
                         ELSE series[Len(series)]

\* The ids of a list that the catalog knows, in the order of the list.
KnownIds(ids) == SelectSeq(ids, InCatalog)

\* C34: the definitions a gather is entered with, for a list of ids that
\* is not empty, are the catalog definitions of the known ids of the list
\* in the order of the list, one for every occurrence; unknown ids leave
\* nothing behind.  For a list of unknown ids only there are no
\* definitions (the default set is not used), the gather makes no gateway
\* call and it returns empty values and series.
C34_KnownIdsInOrder ==
    kPc # "idle" /\ kIds.hasIds /\ kIds.ids # <<>> =>
        LET known == KnownIds(kIds.ids)
            defs == kBundle.defs
        IN  /\ Len(defs) = Len(known)
            /\ \A i \in 1..Len(defs) :
                /\ defs[i].id = known[i]
                /\ \E j \in 1..Len(AVAILABLE_INDICATORS) :
                        defs[i] = AVAILABLE_INDICATORS[j]
            /\ known = <<>> =>
                /\ defs = <<>>
                /\ kCalls = <<>>
                /\ kBundle.acc = NoIndicators
                /\ kPc = "returned" => kResult = NoIndicators

\* A list of two unknown ids was resolved and the gather returned an empty
\* bundle.
C34_Witness ==
    /\ kPc = "returned"
    /\ kIds = IdList(TRUE, <<"nope", "zzz">>)
    /\ kBundle.defs = <<>>
    /\ kCalls = <<>>
    /\ kResult = NoIndicators

----------------------------------------------------------------------------
(* A further property of retry (checked under SpecRetry).                  *)

\* C35: whatever maxAttempts is, a retry that has returned or thrown has
\* called fn() at least once, and what it throws is an error that a call
\* of fn() threw, never null.
C35_CallsOnceAndThrowsAnError ==
    rPc \in {"returned", "thrown"} =>
        /\ NumCalls >= 1
        /\ rPc = "thrown" =>
              /\ rResult # NullError
              /\ \E i \in EventsOf("fail") : rLog[i].x = rResult

----------------------------------------------------------------------------
(* Properties of the roundings (checked under SpecRound).                  *)

\* C36: rounding is idempotent.  roundOrNull of a value that roundOrNull
\* gave, to the same decimals, is that value; a number the gateway rounded
\* to four decimals is left as it is by the rounding of the gateway and by
\* roundOrNull to four decimals; and roundOrNull gives null exactly for
\* null, undefined and values that are not a number (isNaN).
C36_RoundingIdempotent ==
    /\ oPc \in {"once", "twice"} /\ oBy = "aggregator" =>
          (oOnce = JsNull
              <=> (oValue.t \in {"null", "undefined"} \/ ToNumber(oValue).nan))
    /\ oPc = "twice" /\ oBy = "aggregator" => oTwice = oOnce
    /\ oPc = "twice" /\ oBy = "gateway" /\ oValue.t = "number" =>
          /\ oGwTwice = oOnce
          /\ oTwice = oOnce

\* 0.015 was rounded to two decimals, to 0.02 (Math.round takes the half
\* upwards), and 0.02 was rounded again.
C36_Witness ==
    /\ oPc = "twice"
    /\ oBy = "aggregator"
    /\ oValue = JsNumber(1500)
    /\ oDecimals = 2
    /\ oOnce = JsNumber(2000)
    /\ oTwice = JsNumber(2000)

----------------------------------------------------------------------------
(* Properties of getMarketWindow (checked under SpecWindow).               *)

\* C37: for every clock value the window getMarketWindow returns starts at
\* the window start predict puts into the slug for that clock value, it
\* ends 900 seconds later, the clock value lies in it, and the remaining
\* time is the time to its end, between 1 and 900 seconds.
C37_ClientWindowIsSlugWindow ==
    wPc = "both" =>
        /\ wWindow.start = Instant(wRounded, 0)
        /\ wWindow.end = Instant(wRounded + 900, 0)
        /\ wWindow.start.sec <= wInstant.sec
        /\ wInstant.sec < wWindow.end.sec
        /\ wWindow.remainingSec = wWindow.end.sec - wInstant.sec
        /\ wWindow.remainingSec >= 1
        /\ wWindow.remainingSec <= 900

\* The last second of a window: one second remains.
C37_Witness ==
    /\ wPc = "both"
    /\ wInstant = Instant(ExampleWindow + 899, 999)
    /\ wRounded = ExampleWindow
    /\ wWindow.start = Instant(ExampleWindow, 0)
    /\ wWindow.remainingSec = 1

----------------------------------------------------------------------------
(* Properties of the frontend App (checked under SpecApp; C38 under        *)
(* SpecAppLive, where every request settles).                              *)

Triggers == {"submit", "autoClick", "autoTick"}

\* C38: the App never has two prediction requests in flight, and the
\* pending flag is set exactly while one is; a trigger that comes while a
\* request is pending, from the form, the auto button or the auto timer,
\* starts no request and leaves the error as it is; and a set pending flag
\* is cleared again (when the request settles, with a response or with an
\* error), so that a later trigger can start a request.
C38_OneRequestInFlight ==
    /\ [](/\ Len(uApp.inFlight) <= 1
          /\ uApp.isPendingRef <=> uApp.inFlight # <<>>)
    /\ [][uApp.isPendingRef /\ uEvent'.name \in Triggers =>
              /\ uApp'.inFlight = uApp.inFlight
              /\ uApp'.error = uApp.error
              /\ uApp'.isPendingRef]_vars
    /\ [][uApp.isPendingRef /\ uEvent'.name \in {"success", "error"} =>
              ~uApp'.isPendingRef]_vars
    /\ (uApp.isPendingRef ~> ~uApp.isPendingRef)

\* The auto timer fired for ETH while the manual request for BTC was
\* still pending, and no second request was sent.
C38_Witness ==
    /\ uEvent = AppEvent("autoTick", "ETH")
    /\ uApp.isPendingRef
    /\ uApp.inFlight = <<PredictRequest("BTC", "manual")>>

TimersOf(kind) == {t \in uApp.timers : t.kind = kind}
\* The step sent a request that the auto mode asked for.
AutoRequestStarted ==
    /\ Len(uApp'.inFlight) > Len(uApp.inFlight)
    /\ uApp'.inFlight[Len(uApp'.inFlight)].trigger = "auto"

\* C39: at most one auto-predict interval and at most one countdown
\* interval are active at any time, and they are the ones the refs hold;
\* while the auto mode is off no timer is active and the countdown is 0,
\* a click that stops the auto mode leaves it so, and no prediction is
\* started for the auto mode until it is started again; the countdown
\* stays between 0 and 60; and while the auto mode is on a submission of
\* the form changes nothing.
C39_AutoModeTimers ==
    /\ [](/\ Cardinality(TimersOf("auto")) <= 1
          /\ Cardinality(TimersOf("countdown")) <= 1
          /\ \A t \in TimersOf("auto") : t.id = uApp.autoIntervalRef
          /\ \A t \in TimersOf("countdown") : t.id = uApp.countdownRef
          /\ uApp.countdown >= 0
          /\ uApp.countdown <= 60
          /\ uApp.autoSymbol = "" => uApp.timers = {} /\ uApp.countdown = 0)
    /\ [][uApp.autoSymbol # "" /\ uEvent'.name = "autoClick" =>
              /\ uApp'.autoSymbol = ""
              /\ uApp'.timers = {}
              /\ uApp'.countdown = 0
              /\ uApp'.inFlight = uApp.inFlight]_vars
    /\ [][uApp.autoSymbol = "" /\ uApp'.autoSymbol = "" =>
              ~AutoRequestStarted]_vars
    /\ [][uApp.autoSymbol # "" /\ uEvent'.name = "submit" =>
              uApp' = uApp]_vars

\* The auto mode was started for ETH and stopped while its first request
\* was in flight: no timer is left and the countdown is 0.
C39_Witness ==
    /\ uEvent.name = "autoClick"
    /\ uApp.autoSymbol = ""
    /\ uApp.timers = {}
    /\ uApp.countdown = 0
    /\ uApp.inFlight = <<PredictRequest("ETH", "auto")>>

----------------------------------------------------------------------------
(* Properties of placing a bet (checked under SpecBet).                    *)

\* The amount of the card is a positive number.
AmountPositive(card) == card.betAmount \in {"0.7", "10"}

\* The market of the card has a token id for the side of the card.
TokenIdExists(card) ==
    \E i \in 1..Len(card.outcomes) :
        /\ ToLowerCase(card.outcomes[i]) = ToLowerCase(card.betSide)
        /\ \A j \in 1..(i - 1) :
            ToLowerCase(card.outcomes[j]) # ToLowerCase(card.betSide)
        /\ i <= Len(card.clobTokenIds)
        /\ card.clobTokenIds[i].s # ""

\* The body lacks the token id (or has an empty one), the price or the
\* size.
BodyIncomplete(body) ==
    \/ body.tokenId \in {JsUndefined, JsNull, JsString("")}
    \/ body.price \in {JsUndefined, JsNull}
    \/ body.size \in {JsUndefined, JsNull}

\* C40: no order reaches the exchange on invalid input or missing
\* credentials.  A request whose tokenId is missing or empty, or whose
\* price or size is null or undefined, is answered 400 and neither
\* placePolymarketBet nor the exchange is called; a request without a side
\* is passed on with side BUY; when PRIVATE_KEY is unset
\* placePolymarketBet throws before any call of the exchange (the route
\* answers 500); and a card whose amount is not positive, or whose market
\* has no token id for the selected side, sends no request.
C40_NoOrderOnInvalidInput ==
    /\ (xPc = "answered" /\ BodyIncomplete(xRequest)) =>
          /\ xResponse.status = 400
          /\ xClientCalls = <<>>
          /\ xExchange = <<>>
    /\ (xPc = "answered" /\ xClientCalls # <<>>
        /\ xRequest.side = JsUndefined) =>
          xClientCalls[1].side = JsString("BUY")
    /\ (xPc = "answered" /\ xKey = JsUndefined) =>
          /\ xExchange = <<>>
          /\ xClientCalls # <<>> =>
                xResponse = BetResponse(500, FALSE,
                                "Missing PRIVATE_KEY in environment")
    /\ (xFrom = "card" /\ (~AmountPositive(xCard) \/ ~TokenIdExists(xCard)))
          => /\ xPc = "idle"
             /\ xRequest = NoRequest
             /\ xExchange = <<>>

\* A request without a side reached placePolymarketBet as a BUY while
\* PRIVATE_KEY was unset: the route answered 500 and the exchange was not
\* called.
C40_Witness ==
    /\ xPc = "answered"
    /\ xRequest.side = JsUndefined
    /\ xKey = JsUndefined
    /\ Len(xClientCalls) = 1
    /\ xClientCalls[1].side = JsString("BUY")
    /\ xResponse.status = 500
    /\ xExchange = <<>>

====
